---- MODULE Spec2Model ----
(***************************************************************************)
(* Model of clone_OS_bootable.py: the Cleaner (cleanup stack), the         *)
(* FileSystem constructor with its LUKS / mount helpers, the orchestration *)
(* in main() and the try/except/finally wrapper under __main__.            *)
(*                                                                         *)
(* The script is sequential; pc is the position of the interpreter.  Every *)
(* external command, os call or probe is one step whose outcome (exit      *)
(* status, output) is chosen by the environment.                           *)
(***************************************************************************)
EXTENDS Integers, Sequences, FiniteSets, TLC

VARIABLES
  pc,                   \* position in the script
  mode,                 \* "main": run under __main__; "ctor": a bare FileSystem(...) call
  cur,                  \* the FileSystem under construction ("src" or "dest")
  args,                 \* arguments of the call in progress (FileSystem.__init__, run)
  cli,                  \* parsed command line (dest_uuid, password, password_file,
                        \* verbose: -v or -d given)
  luksDev,              \* environment: is the partition behind each FileSystem LUKS
  fs,                   \* attributes of the two FileSystem objects
  jobs,                 \* Cleaner._jobs
  held,                 \* resources currently held (mounts, temp files, LUKS mapping)
  umaskv,               \* process umask
  exc,                  \* exception in flight
  abnormal_termination, \* the flag of __main__
  exitStatus,           \* process exit status, -1 while running
  out,                  \* user-visible log lines, in order
  trace,                \* external operations performed by the steps, in order
  executed,             \* cleanup jobs executed so far, in order
  drainStarts,          \* number of times do_all_jobs was entered
  drainJobs,            \* Cleaner._jobs at the moment do_all_jobs was entered
  bind,                 \* loop index of prepare_chroot over CHROOT_BINDS
  disk,                 \* environment: bootable flag / boot sector of the destination disk
  raised,               \* history: the exception that ended main() or the constructor
  pathIn,               \* arguments of the FileSystem.path calls under test
  pathOut,              \* their results, in order
  runs,                 \* completed runs of the step under test
  atCall                \* history: umask, stack and executed jobs when
                        \* _init_password_file was entered

vars == <<pc, mode, cur, args, cli, luksDev, fs, jobs, held, umaskv, exc,
          abnormal_termination, exitStatus, out, trace, executed,
          drainStarts, drainJobs, bind, disk, raised, pathIn, pathOut, runs,
          atCall>>

\* ---------------------------------------------------------------- bounds
\* exit statuses an external command may return: 0..MaxRC
MaxRC == 3
RCs == 0..MaxRC

\* ------------------------------------------------------- program constants
CRYPTSETUP_PATH_TEMPLATE == "/dev/mapper/"
CHROOT_BINDS == <<"/proc", "/sys", "/dev">>
TightUmask == 127        \* 0o177

\* ------------------------------------------------------------ environment
FSNames == {"src", "dest"}
None == "None"           \* Python None; "" is the empty string
Unset == "<unset>"       \* attribute never assigned (reading it raises AttributeError)
SrcPartUuid == "aaaaaaaa-aaaa-aaaa-aaaa-aaaaaaaaaaaa"
DestPartUuid == "11111111-1111-1111-1111-111111111111"
DestFsUuid == "22222222-2222-2222-2222-222222222222"
ShortUuid == "1234-ABCD"
UmaskInit == {18, 63}    \* 0o022, 0o077
DfOut == {"/dev/sda1", "rootfs"}
BlkidUOut == {"/dev/sdb1", "/dev/sdc", ""}
UuidOut(dev) ==
  { IF dev = "/dev/sda1" THEN SrcPartUuid
    ELSE IF dev = "/dev/sdb1" THEN DestPartUuid ELSE DestFsUuid,
    ShortUuid }

\* Python truthiness of an optional string
Truthy(s) == s \notin {None, ""}

StartsWith(s, p) == Len(s) >= Len(p) /\ SubSeq(s, 1, Len(p)) = p

\* ------------------------------------------------------------- exceptions
NoExc == [kind |-> "none", code |-> 0]
CalledProcessError(rc) == [kind |-> "CalledProcessError", code |-> rc]
AssertionError == [kind |-> "AssertionError", code |-> 0]
AttributeError == [kind |-> "AttributeError", code |-> 0]
OSError == [kind |-> "OSError", code |-> 0]
SystemExit(n) == [kind |-> "SystemExit", code |-> n]

\* `except Exception` catches everything but SystemExit
IsExceptionMut(e) == e.kind # "none"
IsException(e) == e.kind \notin {"none", "SystemExit"}

\* ------------------------------------------------------------ cleanup jobs
SyncJob == [func |-> "sync", arg |-> "", mask |-> 0]
UmaskJob(m) == [func |-> "umask", arg |-> "", mask |-> m]
RemoveJob == [func |-> "remove", arg |-> "password_file", mask |-> 0]
LuksCloseJob == [func |-> "run", arg |-> "cryptsetup luksClose", mask |-> 0]
RmdirJob == [func |-> "rmdir", arg |-> "mountpoint", mask |-> 0]
UmountJob == [func |-> "run", arg |-> "umount", mask |-> 0]
UnbindJob(b) == [func |-> "run", arg |-> "umount --lazy " \o b, mask |-> 0]
ResetJob == [func |-> "setattr", arg |-> "chroot_prepared", mask |-> 0]

BindRes(b) == "bind " \o b
Binds == {CHROOT_BINDS[i] : i \in 1..Len(CHROOT_BINDS)}
Resources == {"password_file", "luks", "mountdir", "mount"} \cup {BindRes(b) : b \in Binds}

\* the resource a job releases ("" for none)
ResourceOf(j) ==
  IF j = RemoveJob THEN "password_file"
  ELSE IF j = LuksCloseJob THEN "luks"
  ELSE IF j = RmdirJob THEN "mountdir"
  ELSE IF j = UmountJob THEN "mount"
  ELSE IF \E b \in Binds : j = UnbindJob(b)
       THEN BindRes(CHOOSE b \in Binds : j = UnbindJob(b))
  ELSE ""

\* jobs whose callable can raise: run (CalledProcessError), rmdir/remove (OSError)
CanFail(j) == j.func \in {"run", "rmdir", "remove"}
JobError(j) == IF j.func = "run" THEN CalledProcessError(1) ELSE OSError

\* ------------------------------------------------------------------ Cleaner
add_jobMut(js, j) == <<j>> \o js
add_job(js, j) == Append(js, j)

\* index of the job do_one_job pops
PopIndexMut(js) == 1
PopIndex(js) == Len(js)

RemoveAt(js, i) == SubSeq(js, 1, i - 1) \o SubSeq(js, i + 1, Len(js))

\* do_one_job: pop, then call; ok is the outcome of the call
do_one_jobKeep(ok) ==
  LET i == PopIndex(jobs)
      j == jobs[i]
      r == ResourceOf(j)
  IN /\ jobs' = IF ok THEN RemoveAt(jobs, i) ELSE jobs
     /\ executed' = Append(executed, [job |-> j, ok |-> ok])
     /\ held' = IF ok /\ r # "" THEN held \ {r} ELSE held
     /\ umaskv' = IF j.func = "umask" THEN j.mask ELSE umaskv
     /\ fs' = IF j.func = "setattr"
                THEN [fs EXCEPT !["dest"].chroot_prepared = FALSE]
                ELSE fs

do_one_job(ok) ==
  LET i == PopIndex(jobs)
      j == jobs[i]
      r == ResourceOf(j)
  IN /\ jobs' = RemoveAt(jobs, i)
     /\ executed' = Append(executed, [job |-> j, ok |-> ok])
     /\ held' = IF ok /\ r # "" THEN held \ {r} ELSE held
     /\ umaskv' = IF j.func = "umask" THEN j.mask ELSE umaskv
     /\ fs' = IF j.func = "setattr"
                THEN [fs EXCEPT !["dest"].chroot_prepared = FALSE]
                ELSE fs

\* ------------------------------------------------------------- control flow
\* an external operation and its exit status (0: success)
Ev(op, rc) == [op |-> op, rc |-> rc]
Goto(l) == pc' = l /\ exc' = exc /\ raised' = raised
Raise(e) ==
  /\ exc' = e
  /\ raised' = e
  /\ pc' = IF mode = "main" THEN "except" ELSE "ctor_raised"
Emit(line) == out' = Append(out, line)
\* logging.info: the root logger passes it only at level INFO or DEBUG,
\* which -v or -d sets (the default is WARNING, -q sets ERROR)
info(line) == out' = IF cli.verbose THEN Append(out, line) ELSE out

env == <<mode, cli, luksDev>>
drain == <<drainStarts, drainJobs>>
final == <<abnormal_termination, exitStatus>>
test == <<pathIn, pathOut, runs, atCall>>
locals == <<bind, disk, test>>

NoFS == [partition_device_path |-> Unset, uuid_on_partition |-> Unset,
         filesystem_device_path |-> Unset, filesystem_uuid |-> Unset,
         mountpoint |-> Unset, password_file |-> Unset,
         chroot_prepared |-> FALSE]
NoCall == [umaskv |-> -1, jobs |-> <<>>, executed |-> <<>>]
NoDisk == [bootable |-> FALSE, grub |-> FALSE, sibling |-> FALSE]
NoPath == [mountpoint |-> "", bits |-> <<>>, i |-> 0, k |-> 0]
NoArgs == [mountpoint |-> None, uuid |-> None, password |-> None,
           password_file |-> None]

\* =========================================================== FileSystem.__init__
\* lines 135-155: the RuntimeError is built but not raised; then the
\* mountpoint / uuid branch
FileSystem_init ==
  /\ pc = "FileSystem.__init__"
  /\ fs' = [fs EXCEPT ![cur] =
              IF Truthy(args.mountpoint)
                THEN [NoFS EXCEPT !.mountpoint = args.mountpoint]
              ELSE IF Truthy(args.uuid)
                THEN [NoFS EXCEPT !.uuid_on_partition = args.uuid]
              ELSE NoFS]
  /\ Goto(IF Truthy(args.mountpoint) THEN "get_device_by_mount_point"
          ELSE IF Truthy(args.uuid) THEN "get_partition_by_uuid"
          ELSE "debug_device")
  /\ UNCHANGED <<cur, args, env, jobs, held, umaskv, final, out, trace,
                 executed, drain, locals>>

get_device_by_mount_point ==
  /\ pc = "get_device_by_mount_point"
  /\ \E rc \in RCs, o \in DfOut :
       /\ trace' = Append(trace, Ev("df", rc))
       /\ IF rc # 0 THEN Raise(CalledProcessError(rc)) /\ UNCHANGED fs
          ELSE IF ~StartsWith(o, "/dev/") THEN Raise(AssertionError) /\ UNCHANGED fs
          ELSE /\ fs' = [fs EXCEPT ![cur].partition_device_path = o]
               /\ Goto("get_uuid_by_device")
  /\ UNCHANGED <<cur, args, env, jobs, held, umaskv, final, out, executed, drain, locals>>

\* get_uuid_by_device(self.partition_device_path), lines 149-151
get_uuid_by_device ==
  /\ pc = "get_uuid_by_device"
  /\ \E rc \in RCs, o \in UuidOut(fs[cur].partition_device_path) :
       /\ trace' = Append(trace, Ev("blkid -s UUID", rc))
       /\ IF rc # 0 THEN Raise(CalledProcessError(rc)) /\ UNCHANGED fs
          ELSE IF Len(o) # 36 THEN Raise(AssertionError) /\ UNCHANGED fs
          ELSE /\ fs' = [fs EXCEPT ![cur].uuid_on_partition = o]
               /\ Goto("debug_device")
  /\ UNCHANGED <<cur, args, env, jobs, held, umaskv, final, out, executed, drain, locals>>

get_partition_by_uuid ==
  /\ pc = "get_partition_by_uuid"
  /\ \E rc \in RCs, o \in BlkidUOut :
       /\ trace' = Append(trace, Ev("blkid -U", rc))
       /\ IF rc # 0 THEN Raise(CalledProcessError(rc)) /\ UNCHANGED fs
          ELSE IF ~StartsWith(o, "/dev/") THEN Raise(AssertionError) /\ UNCHANGED fs
          ELSE /\ fs' = [fs EXCEPT ![cur].partition_device_path = o]
               /\ Goto("debug_device")
  /\ UNCHANGED <<cur, args, env, jobs, held, umaskv, final, out, executed, drain, locals>>

\* lines 157-158 read both attributes
debug_device ==
  /\ pc = "debug_device"
  /\ IF fs[cur].partition_device_path = Unset \/ fs[cur].uuid_on_partition = Unset
       THEN Raise(AttributeError)
       ELSE Goto("is_luks")
  /\ UNCHANGED <<cur, args, env, fs, jobs, held, umaskv, final, out, trace,
                 executed, drain, locals>>

\* line 160 with is_luks, lines 210-213
is_luks ==
  /\ pc = "is_luks"
  /\ \E rc \in RCs :
       /\ trace' = Append(trace, Ev("file -ELs", rc))
       /\ IF rc # 0 THEN Raise(CalledProcessError(rc))
          ELSE Goto(IF luksDev[cur] THEN "_init_password_file" ELSE "not_luks")
  /\ UNCHANGED <<cur, args, env, fs, jobs, held, umaskv, final, out, executed, drain, locals>>

\* lines 193-199
_init_password_fileMut ==
  /\ pc = "_init_password_file"
  /\ IF Truthy(args.password_file)
       THEN /\ fs' = [fs EXCEPT ![cur].password_file = args.password_file]
            /\ Goto("set_filesystem_device_path")
            /\ UNCHANGED out
       ELSE /\ Goto("umask") /\ UNCHANGED <<fs, out>>
  /\ atCall' = [umaskv |-> umaskv, jobs |-> jobs, executed |-> executed]
  /\ UNCHANGED <<cur, args, env, jobs, held, umaskv, final, trace, executed, drain,
                 bind, disk, pathIn, pathOut, runs>>

_init_password_file ==
  /\ pc = "_init_password_file"
  /\ IF Truthy(args.password_file)
       THEN /\ fs' = [fs EXCEPT ![cur].password_file = args.password_file]
            /\ Goto("set_filesystem_device_path")
            /\ UNCHANGED out
       ELSE IF ~Truthy(args.password)
       THEN /\ Emit("Please specify either a password or a password file!")
            /\ Raise(SystemExit(4))
            /\ UNCHANGED fs
       ELSE /\ Goto("umask") /\ UNCHANGED <<fs, out>>
  /\ atCall' = [umaskv |-> umaskv, jobs |-> jobs, executed |-> executed]
  /\ UNCHANGED <<cur, args, env, jobs, held, umaskv, final, trace, executed, drain,
                 bind, disk, pathIn, pathOut, runs>>

\* line 200: umask(0o177) returns the previous mask, which the job restores
_init_password_file_umaskMut ==
  /\ pc = "umask"
  /\ umaskv' = TightUmask
  /\ jobs' = add_job(jobs, UmaskJob(TightUmask))
  /\ Goto("mkstemp")
  /\ UNCHANGED <<cur, args, env, fs, held, final, out, trace, executed, drain, locals>>

_init_password_file_umask ==
  /\ pc = "umask"
  /\ umaskv' = TightUmask
  /\ jobs' = add_job(jobs, UmaskJob(umaskv))
  /\ Goto("mkstemp")
  /\ UNCHANGED <<cur, args, env, fs, held, final, out, trace, executed, drain, locals>>

\* lines 201-202
_init_password_file_mkstemp ==
  /\ pc = "mkstemp"
  /\ \E ok \in BOOLEAN :
       /\ trace' = Append(trace, Ev("mkstemp", IF ok THEN 0 ELSE 1))
       /\ IF ok
            THEN /\ fs' = [fs EXCEPT ![cur].password_file = "/tmp/prog__password"]
                 /\ held' = held \cup {"password_file"}
                 /\ Goto("do_one_job")
            ELSE Raise(OSError) /\ UNCHANGED <<fs, held>>
  /\ UNCHANGED <<cur, args, env, jobs, umaskv, final, out, executed, drain, locals>>

\* line 204: the early single-job drain
_init_password_file_do_one_jobMut ==
  /\ pc = "do_one_job"
  /\ Len(jobs) >= 2
  /\ jobs' = SubSeq(jobs, 1, Len(jobs) - 2)
  /\ executed' = executed \o <<[job |-> jobs[Len(jobs)], ok |-> TRUE],
                                [job |-> jobs[Len(jobs) - 1], ok |-> TRUE]>>
  /\ umaskv' = jobs[Len(jobs)].mask
  /\ Goto("add_job_remove")
  /\ UNCHANGED <<cur, args, env, fs, held, final, out, trace, drain, locals>>

_init_password_file_do_one_job ==
  /\ pc = "do_one_job"
  /\ \E ok \in (IF CanFail(jobs[PopIndex(jobs)]) THEN BOOLEAN ELSE {TRUE}) :
       /\ do_one_job(ok)
       /\ IF ok THEN Goto("add_job_remove")
          ELSE Raise(JobError(jobs[PopIndex(jobs)]))
  /\ UNCHANGED <<cur, args, env, final, out, trace, drain, locals>>

\* line 205
_init_password_file_add_job ==
  /\ pc = "add_job_remove"
  /\ jobs' = add_job(jobs, RemoveJob)
  /\ Goto("write_password")
  /\ UNCHANGED <<cur, args, env, fs, held, umaskv, final, out, trace,
                 executed, drain, locals>>

\* lines 207-208
_init_password_file_write ==
  /\ pc = "write_password"
  /\ \E ok \in BOOLEAN :
       /\ trace' = Append(trace, Ev("write password", IF ok THEN 0 ELSE 1))
       /\ IF ok THEN Goto("set_filesystem_device_path") ELSE Raise(OSError)
  /\ UNCHANGED <<cur, args, env, fs, jobs, held, umaskv, final, out,
                 executed, drain, locals>>

\* lines 163-164
set_filesystem_device_path ==
  /\ pc = "set_filesystem_device_path"
  /\ fs' = [fs EXCEPT ![cur].filesystem_device_path =
                        CRYPTSETUP_PATH_TEMPLATE \o fs[cur].uuid_on_partition]
  /\ Goto("_luks_open")
  /\ UNCHANGED <<cur, args, env, jobs, held, umaskv, final, out, trace,
                 executed, drain, locals>>

\* lines 215-228
_luks_openMut ==
  /\ pc = "_luks_open"
  /\ \E rc \in RCs :
       /\ trace' = Append(trace, Ev("cryptsetup luksOpen", rc))
       /\ IF rc = 0
            THEN /\ jobs' = add_job(jobs, LuksCloseJob)
                 /\ held' = held \cup {"luks"}
                 /\ Goto("get_uuid_by_device_filesystem")
                 /\ UNCHANGED out
            ELSE /\ jobs' = add_job(jobs, LuksCloseJob)
                 /\ IF rc = 2
                      THEN /\ Emit("could not open LUKS device: wrong passphrase")
                           /\ Raise(SystemExit(3))
                      ELSE Raise(CalledProcessError(rc)) /\ UNCHANGED out
                 /\ UNCHANGED held
  /\ UNCHANGED <<cur, args, env, fs, umaskv, final, executed, drain, locals>>

_luks_openNoJob ==
  /\ pc = "_luks_open"
  /\ \E rc \in RCs :
       /\ trace' = Append(trace, Ev("cryptsetup luksOpen", rc))
       /\ IF rc = 0
            THEN /\ held' = held \cup {"luks"}
                 /\ Goto("get_uuid_by_device_filesystem")
                 /\ UNCHANGED <<out, jobs>>
            ELSE /\ IF rc = 2
                      THEN /\ Emit("could not open LUKS device: wrong passphrase")
                           /\ Raise(SystemExit(3))
                      ELSE Raise(CalledProcessError(rc)) /\ UNCHANGED out
                 /\ UNCHANGED <<jobs, held>>
  /\ UNCHANGED <<cur, args, env, fs, umaskv, final, executed, drain, locals>>

_luks_open ==
  /\ pc = "_luks_open"
  /\ \E rc \in RCs :
       /\ trace' = Append(trace, Ev("cryptsetup luksOpen", rc))
       /\ IF rc = 0
            THEN /\ jobs' = add_job(jobs, LuksCloseJob)
                 /\ held' = held \cup {"luks"}
                 /\ Goto("get_uuid_by_device_filesystem")
                 /\ UNCHANGED out
            ELSE /\ IF rc = 2
                      THEN /\ Emit("could not open LUKS device: wrong passphrase")
                           /\ Raise(SystemExit(3))
                      ELSE Raise(CalledProcessError(rc)) /\ UNCHANGED out
                 /\ UNCHANGED <<jobs, held>>
  /\ UNCHANGED <<cur, args, env, fs, umaskv, final, executed, drain, locals>>

\* lines 168-170
get_uuid_by_device_filesystem ==
  /\ pc = "get_uuid_by_device_filesystem"
  /\ \E rc \in RCs, o \in UuidOut(fs[cur].filesystem_device_path) :
       /\ trace' = Append(trace, Ev("blkid -s UUID", rc))
       /\ IF rc # 0 THEN Raise(CalledProcessError(rc)) /\ UNCHANGED fs
          ELSE IF Len(o) # 36 THEN Raise(AssertionError) /\ UNCHANGED fs
          ELSE /\ fs' = [fs EXCEPT ![cur].filesystem_uuid = o]
               /\ Goto(IF ~Truthy(args.mountpoint) THEN "_mount" ELSE "asserts")
  /\ UNCHANGED <<cur, args, env, jobs, held, umaskv, final, out, executed, drain, locals>>

\* lines 172-182
not_luksMut ==
  /\ pc = "not_luks"
  /\ fs' = [fs EXCEPT ![cur].filesystem_device_path = fs[cur].partition_device_path,
                      ![cur].filesystem_uuid = fs[cur].uuid_on_partition]
  /\ Goto(IF ~Truthy(args.mountpoint) THEN "_mount" ELSE "asserts")
  /\ UNCHANGED <<cur, args, env, jobs, held, umaskv, final, out, trace,
                 executed, drain, locals>>

not_luksAlwaysMount ==
  /\ pc = "not_luks"
  /\ IF Truthy(args.password) \/ Truthy(args.password_file)
       THEN /\ Emit("You specified a LUKS password but the target does not seem to be a LUKS encrypted partition!?")
            /\ Raise(SystemExit(2))
            /\ UNCHANGED fs
       ELSE /\ fs' = [fs EXCEPT
                        ![cur].filesystem_device_path = fs[cur].partition_device_path,
                        ![cur].filesystem_uuid = fs[cur].uuid_on_partition]
            /\ Goto("_mount")
            /\ UNCHANGED out
  /\ UNCHANGED <<cur, args, env, jobs, held, umaskv, final, trace, executed, drain, locals>>

not_luks ==
  /\ pc = "not_luks"
  /\ IF Truthy(args.password) \/ Truthy(args.password_file)
       THEN /\ Emit("You specified a LUKS password but the target does not seem to be a LUKS encrypted partition!?")
            /\ Raise(SystemExit(2))
            /\ UNCHANGED fs
       ELSE /\ fs' = [fs EXCEPT
                        ![cur].filesystem_device_path = fs[cur].partition_device_path,
                        ![cur].filesystem_uuid = fs[cur].uuid_on_partition]
            /\ Goto(IF ~Truthy(args.mountpoint) THEN "_mount" ELSE "asserts")
            /\ UNCHANGED out
  /\ UNCHANGED <<cur, args, env, jobs, held, umaskv, final, trace, executed, drain, locals>>

\* lines 232-235
_mount_mkdtempMut ==
  /\ pc = "_mount"
  /\ \E ok \in BOOLEAN :
       /\ trace' = Append(trace, Ev("mkdtemp", IF ok THEN 0 ELSE 1))
       /\ IF ok
            THEN /\ held' = held \cup {"mountdir"}
                 /\ jobs' = add_job(jobs, RmdirJob)
                 /\ Goto("mount")
            ELSE Raise(OSError) /\ UNCHANGED <<held, jobs>>
  /\ UNCHANGED <<cur, args, env, fs, umaskv, final, out, executed, drain, locals>>

_mount_mkdtemp ==
  /\ pc = "_mount"
  /\ \E ok \in BOOLEAN :
       /\ trace' = Append(trace, Ev("mkdtemp", IF ok THEN 0 ELSE 1))
       /\ IF ok
            THEN /\ fs' = [fs EXCEPT ![cur].mountpoint = "/tmp/prog__mount"]
                 /\ held' = held \cup {"mountdir"}
                 /\ jobs' = add_job(jobs, RmdirJob)
                 /\ Goto("mount")
            ELSE Raise(OSError) /\ UNCHANGED <<fs, held, jobs>>
  /\ UNCHANGED <<cur, args, env, umaskv, final, out, executed, drain, locals>>

\* lines 236-244
_mount_runMut ==
  /\ pc = "mount"
  /\ \E rc \in RCs :
       /\ trace' = Append(trace, Ev("mount", rc))
       /\ IF rc = 0
            THEN /\ held' = held \cup {"mount"}
                 /\ Goto("asserts")
            ELSE Raise(CalledProcessError(rc)) /\ UNCHANGED <<held>>
  /\ UNCHANGED <<cur, args, env, fs, jobs, umaskv, final, out, executed, drain, locals>>

_mount_runEarlyJob ==
  /\ pc = "mount"
  /\ \E rc \in RCs :
       /\ trace' = Append(trace, Ev("mount", rc))
       /\ jobs' = add_job(jobs, UmountJob)
       /\ IF rc = 0
            THEN /\ held' = held \cup {"mount"}
                 /\ Goto("asserts")
            ELSE Raise(CalledProcessError(rc)) /\ UNCHANGED <<held>>
  /\ UNCHANGED <<cur, args, env, fs, umaskv, final, out, executed, drain, locals>>

_mount_run ==
  /\ pc = "mount"
  /\ \E rc \in RCs :
       /\ trace' = Append(trace, Ev("mount", rc))
       /\ IF rc = 0
            THEN /\ held' = held \cup {"mount"}
                 /\ jobs' = add_job(jobs, UmountJob)
                 /\ Goto("asserts")
            ELSE Raise(CalledProcessError(rc)) /\ UNCHANGED <<held, jobs>>
  /\ UNCHANGED <<cur, args, env, fs, umaskv, final, out, executed, drain, locals>>

\* lines 187-191 and the return to the caller (lines 521-527)
FieldOK(v) == v # Unset /\ v # ""
FileSystem_asserts ==
  /\ pc = "asserts"
  /\ IF /\ FieldOK(fs[cur].partition_device_path)
        /\ FieldOK(fs[cur].uuid_on_partition)
        /\ FieldOK(fs[cur].filesystem_device_path)
        /\ FieldOK(fs[cur].filesystem_uuid)
        /\ FieldOK(fs[cur].mountpoint)
       THEN IF mode = "ctor" THEN Goto("ctor_returned") /\ UNCHANGED <<cur, args>>
            ELSE IF cur = "src"
              THEN /\ cur' = "dest"
                   /\ args' = [mountpoint |-> None, uuid |-> cli.dest_uuid,
                               password |-> cli.password,
                               password_file |-> cli.password_file]
                   /\ Goto("FileSystem.__init__")
              ELSE Goto("rsync") /\ UNCHANGED <<cur, args>>
       ELSE Raise(AssertionError) /\ UNCHANGED <<cur, args>>
  /\ UNCHANGED <<env, fs, jobs, held, umaskv, final, out, trace, executed, drain, locals>>

Construct ==
  \/ FileSystem_init
  \/ get_device_by_mount_point
  \/ get_uuid_by_device
  \/ get_partition_by_uuid
  \/ debug_device
  \/ is_luks
  \/ _init_password_file
  \/ _init_password_file_umask
  \/ _init_password_file_mkstemp
  \/ _init_password_file_do_one_job
  \/ _init_password_file_add_job
  \/ _init_password_file_write
  \/ set_filesystem_device_path
  \/ _luks_open
  \/ get_uuid_by_device_filesystem
  \/ not_luks
  \/ _mount_mkdtemp
  \/ _mount_run
  \/ FileSystem_asserts

\* a bare FileSystem(cleaner, mountpoint, uuid, None, password, password_file)
\* call on a fresh Cleaner, with every combination of arguments
OptStr(v) == {None, "", v}
CtorInit ==
  /\ pc = "FileSystem.__init__"
  /\ mode = "ctor"
  /\ cur = "dest"
  /\ args \in [mountpoint : OptStr("/"), uuid : OptStr(DestPartUuid),
               password : OptStr("secret"), password_file : OptStr("/root/key")]
  /\ cli = [dest_uuid |-> None, password |-> None, password_file |-> None,
            verbose |-> FALSE]
  /\ luksDev \in [FSNames -> BOOLEAN]
  /\ luksDev["src"] = FALSE
  /\ fs = [f \in FSNames |-> NoFS]
  /\ jobs = <<>>
  /\ held = {}
  /\ umaskv \in UmaskInit
  /\ exc = NoExc
  /\ abnormal_termination = FALSE
  /\ exitStatus = -1
  /\ out = <<>>
  /\ trace = <<>>
  /\ executed = <<>>
  /\ drainStarts = 0
  /\ drainJobs = <<>>
  /\ raised = NoExc
  /\ bind = 0
  /\ pathIn = NoPath
  /\ pathOut = <<>>
  /\ runs = 0
  /\ atCall = NoCall
  /\ disk = NoDisk

CtorNext == Construct
CtorSpec == CtorInit /\ [][CtorNext]_vars

\* ======================================================================= main
Digits == {"0", "1", "2", "3", "4", "5", "6", "7", "8", "9"}
EndsInDigit(s) == Len(s) > 0 /\ SubSeq(s, Len(s), Len(s)) \in Digits

\* sub(PARTITION_NUMBER_PATTERN, '', s)
RECURSIVE StripDigits(_)
StripDigits(s) == IF EndsInDigit(s) THEN StripDigits(SubSeq(s, 1, Len(s) - 1)) ELSE s

\* FileSystem.device_path and FileSystem.partition_number ("" when the
\* pattern does not match, which the property turns into an AssertionError)
device_path(f) == StripDigits(fs[f].partition_device_path)
partition_number(f) ==
  SubSeq(fs[f].partition_device_path,
         Len(StripDigits(fs[f].partition_device_path)) + 1,
         Len(fs[f].partition_device_path))

SrcArgs == [mountpoint |-> "/", uuid |-> None, password |-> None,
            password_file |-> None]

\* lines 518-521: the first job, then FileSystem(cleaner, mountpoint="/")
main_add_job_syncMut ==
  /\ pc = "main"
  /\ cur' = "src"
  /\ args' = SrcArgs
  /\ Goto("FileSystem.__init__")
  /\ UNCHANGED <<jobs, env, fs, held, umaskv, final, out, trace, executed, drain, locals>>

main_add_job_sync ==
  /\ pc = "main"
  /\ jobs' = add_job(jobs, SyncJob)
  /\ cur' = "src"
  /\ args' = SrcArgs
  /\ Goto("FileSystem.__init__")
  /\ UNCHANGED <<env, fs, held, umaskv, final, out, trace, executed, drain, locals>>

\* lines 366-392; an empty include/exclude pattern trips the assertion
rsyncMut ==
  /\ pc = "rsync"
  /\ \E rc \in RCs :
       /\ trace' = Append(trace, Ev("rsync", rc))
       /\ Goto("prepare_chroot")
  /\ UNCHANGED <<cur, args, env, fs, jobs, held, umaskv, final, out, executed,
                 drain, locals>>

rsync ==
  /\ pc = "rsync"
  /\ \/ /\ Raise(AssertionError)
        /\ UNCHANGED trace
     \/ \E rc \in RCs :
          /\ trace' = Append(trace, Ev("rsync", rc))
          /\ IF rc = 0 THEN Goto("prepare_chroot") ELSE Raise(CalledProcessError(rc))
  /\ UNCHANGED <<cur, args, env, fs, jobs, held, umaskv, final, out, executed,
                 drain, locals>>

\* line 274
prepare_chrootMut ==
  /\ pc = "prepare_chroot"
  /\ Goto("mount --bind") /\ bind' = 1
  /\ UNCHANGED <<cur, args, env, fs, jobs, held, umaskv, final, out, trace,
                 executed, drain, disk, test>>

prepare_chroot ==
  /\ pc = "prepare_chroot"
  /\ IF fs["dest"].chroot_prepared
       THEN Raise(AssertionError) /\ UNCHANGED bind
       ELSE Goto("mount --bind") /\ bind' = 1
  /\ UNCHANGED <<cur, args, env, fs, jobs, held, umaskv, final, out, trace,
                 executed, drain, disk, test>>

\* lines 276-278, one iteration
prepare_chroot_bindMut ==
  /\ pc = "mount --bind"
  /\ \E rc \in RCs :
       /\ trace' = Append(trace, Ev("mount --bind " \o CHROOT_BINDS[bind], rc))
       /\ jobs' = add_job(jobs, UnbindJob(CHROOT_BINDS[bind]))
       /\ IF rc = 0
            THEN /\ held' = held \cup {BindRes(CHROOT_BINDS[bind])}
                 /\ bind' = bind + 1
                 /\ Goto(IF bind = Len(CHROOT_BINDS) THEN "chroot_prepared"
                         ELSE "mount --bind")
            ELSE Raise(CalledProcessError(rc)) /\ UNCHANGED <<held, bind>>
  /\ UNCHANGED <<cur, args, env, fs, umaskv, final, out, executed, drain, disk, test>>

prepare_chroot_bind ==
  /\ pc = "mount --bind"
  /\ \E rc \in RCs :
       /\ trace' = Append(trace, Ev("mount --bind " \o CHROOT_BINDS[bind], rc))
       /\ IF rc = 0
            THEN /\ held' = held \cup {BindRes(CHROOT_BINDS[bind])}
                 /\ jobs' = add_job(jobs, UnbindJob(CHROOT_BINDS[bind]))
                 /\ bind' = bind + 1
                 /\ Goto(IF bind = Len(CHROOT_BINDS) THEN "chroot_prepared"
                         ELSE "mount --bind")
            ELSE Raise(CalledProcessError(rc)) /\ UNCHANGED <<held, jobs, bind>>
  /\ UNCHANGED <<cur, args, env, fs, umaskv, final, out, executed, drain, disk, test>>

\* lines 279-280
prepare_chroot_doneMut ==
  /\ pc = "chroot_prepared"
  /\ fs' = [fs EXCEPT !["dest"].chroot_prepared = TRUE]
  /\ Goto(IF mode = "main" THEN "fix_fstab" ELSE "returned")
  /\ UNCHANGED <<cur, args, env, jobs, held, umaskv, final, out, trace, executed,
                 drain, locals>>

prepare_chroot_done ==
  /\ pc = "chroot_prepared"
  /\ jobs' = add_job(jobs, ResetJob)
  /\ fs' = [fs EXCEPT !["dest"].chroot_prepared = TRUE]
  /\ Goto(IF mode = "main" THEN "fix_fstab" ELSE "returned")
  /\ UNCHANGED <<cur, args, env, held, umaskv, final, out, trace, executed,
                 drain, locals>>

\* a step that edits one file of the destination in place
EditFile(at, what, next) ==
  /\ pc = at
  /\ \E ok \in BOOLEAN :
       /\ trace' = Append(trace, Ev(what, IF ok THEN 0 ELSE 1))
       /\ IF ok THEN Goto(next) ELSE Raise(OSError)
  /\ UNCHANGED <<cur, args, env, fs, jobs, held, umaskv, final, out, executed,
                 drain, locals>>

\* run_chrooted, lines 282-287
RunChrootedMut(at, what, next) ==
  /\ pc = at
  /\ \E rc \in RCs :
       /\ trace' = Append(trace, Ev("chroot " \o what, rc))
       /\ IF rc = 0 THEN Goto(next) ELSE Raise(CalledProcessError(rc))
  /\ UNCHANGED <<cur, args, env, fs, jobs, held, umaskv, final, out, executed,
                 drain, locals>>

RunChrooted(at, what, next) ==
  /\ pc = at
  /\ IF ~fs["dest"].chroot_prepared
       THEN Raise(AssertionError) /\ UNCHANGED trace
       ELSE \E rc \in RCs :
              /\ trace' = Append(trace, Ev("chroot " \o what, rc))
              /\ IF rc = 0 THEN Goto(next) ELSE Raise(CalledProcessError(rc))
  /\ UNCHANGED <<cur, args, env, fs, jobs, held, umaskv, final, out, executed,
                 drain, locals>>

\* lines 396-407
fix_fstab_device ==
  EditFile("fix_fstab", "replace device in etc/fstab", "fix_fstab_uuid")
fix_fstab_uuid ==
  EditFile("fix_fstab_uuid", "replace uuid in etc/fstab", "fix_grub_config")

\* lines 411-415
fix_grub_config ==
  EditFile("fix_grub_config", "sub resume= in etc/default/grub",
           "make_luks_root_bootable")

\* lines 421-422
make_luks_root_bootableMut ==
  /\ pc = "make_luks_root_bootable"
  /\ \E rc \in RCs :
       /\ trace' = Append(trace, Ev("file -ELs", rc))
       /\ IF rc # 0 THEN Raise(CalledProcessError(rc))
          ELSE Goto("crypttab")
  /\ UNCHANGED <<cur, args, env, fs, jobs, held, umaskv, final, out, executed,
                 drain, locals>>

make_luks_root_bootable ==
  /\ pc = "make_luks_root_bootable"
  /\ \E rc \in RCs :
       /\ trace' = Append(trace, Ev("file -ELs", rc))
       /\ IF rc # 0 THEN Raise(CalledProcessError(rc))
          ELSE Goto(IF luksDev["dest"] THEN "crypttab" ELSE "ensure_bootable_flag")
  /\ UNCHANGED <<cur, args, env, fs, jobs, held, umaskv, final, out, executed,
                 drain, locals>>

\* lines 424-454
make_luks_root_bootable_crypttab ==
  EditFile("crypttab", "add line to /etc/crypttab", "cryptopts")
make_luks_root_bootable_cryptoptsMut ==
  EditFile("cryptopts", "replace cryptopts in /etc/default/grub", "update-initramfs")
make_luks_root_bootable_cryptopts ==
  EditFile("cryptopts", "replace cryptopts in /etc/default/grub", "cryptodisk")
make_luks_root_bootable_cryptodisk ==
  EditFile("cryptodisk", "add GRUB_ENABLE_CRYPTODISK to /etc/default/grub",
           "conf-hook")
make_luks_root_bootable_conf_hook ==
  EditFile("conf-hook", "add CRYPTSETUP=y to /etc/cryptsetup-initramfs/conf-hook",
           "update-initramfs")

\* line 455
make_luks_root_bootable_update_initramfs ==
  RunChrooted("update-initramfs", "update-initramfs -u", "ensure_bootable_flag")

\* s in t, for strings
Contains(t, s) == \E i \in 1..(Len(t) - Len(s) + 1) : SubSeq(t, i, i + Len(s) - 1) = s

\* stdout of `sfdisk --activate --no-reread <disk>`: the active partitions,
\* one per line (the sibling is a partition whose name extends this one's)
SfdiskOut ==
  (IF disk.bootable THEN fs["dest"].partition_device_path \o "\n" ELSE "")
  \o (IF disk.sibling THEN fs["dest"].partition_device_path \o "0\n" ELSE "")

\* lines 462-464: the probe lists the active partitions
ensure_bootable_flagMut ==
  /\ pc = "ensure_bootable_flag"
  /\ IF ~StartsWith(device_path("dest"), "/dev/")
       THEN Raise(AssertionError) /\ UNCHANGED trace
       ELSE \E rc \in RCs :
              /\ trace' = Append(trace, Ev("sfdisk --activate --no-reread", rc))
              /\ IF rc # 0 THEN Raise(CalledProcessError(rc))
                 ELSE Goto("sfdisk --activate")
  /\ UNCHANGED <<cur, args, env, fs, jobs, held, umaskv, final, out, executed,
                 drain, locals>>

ensure_bootable_flag ==
  /\ pc = "ensure_bootable_flag"
  /\ IF ~StartsWith(device_path("dest"), "/dev/")
       THEN Raise(AssertionError) /\ UNCHANGED trace
       ELSE \E rc \in RCs :
              /\ trace' = Append(trace, Ev("sfdisk --activate --no-reread", rc))
              /\ IF rc # 0 THEN Raise(CalledProcessError(rc))
                 ELSE Goto(IF Contains(SfdiskOut, fs["dest"].partition_device_path)
                           THEN "update-grub" ELSE "sfdisk --activate")
  /\ UNCHANGED <<cur, args, env, fs, jobs, held, umaskv, final, out, executed,
                 drain, locals>>

\* lines 465-468
ensure_bootable_flag_set ==
  /\ pc = "sfdisk --activate"
  /\ IF partition_number("dest") = ""
       THEN Raise(AssertionError) /\ UNCHANGED <<trace, disk>>
       ELSE \E rc \in RCs :
              /\ trace' = Append(trace, Ev("sfdisk --activate", rc))
              /\ IF rc = 0
                   THEN disk' = [disk EXCEPT !.bootable = TRUE] /\ Goto("update-grub")
                   ELSE Raise(CalledProcessError(rc)) /\ UNCHANGED disk
  /\ UNCHANGED <<cur, args, env, fs, jobs, held, umaskv, final, out, executed,
                 drain, bind, test>>

\* line 540
update_grubMut ==
  /\ pc = "update-grub"
  /\ Goto("grub_is_installed")
  /\ UNCHANGED <<cur, args, env, fs, jobs, held, umaskv, final, out, trace,
                 executed, drain, locals>>

update_grub == RunChrooted("update-grub", "update-grub", "grub_is_installed")

\* lines 312-329 and 542-546: status 1 of the probe pipeline means "absent"
grub_is_installedMut ==
  /\ pc = "grub_is_installed"
  /\ \E rc \in {IF disk.grub THEN 0 ELSE 1} \cup (2..MaxRC) :
       /\ trace' = Append(trace, Ev("dd | strings | grep -q GRUB", rc))
       /\ IF rc = 0 THEN Goto("main_return")
          ELSE Goto("grub-install")
  /\ UNCHANGED <<cur, args, env, fs, jobs, held, umaskv, final, out, executed,
                 drain, locals>>

grub_is_installed ==
  /\ pc = "grub_is_installed"
  /\ \E rc \in {IF disk.grub THEN 0 ELSE 1} \cup (2..MaxRC) :
       /\ trace' = Append(trace, Ev("dd | strings | grep -q GRUB", rc))
       /\ IF rc = 0 THEN Goto("main_return")
          ELSE IF rc = 1 THEN Goto("grub-install")
          ELSE Raise(CalledProcessError(rc))
  /\ UNCHANGED <<cur, args, env, fs, jobs, held, umaskv, final, out, executed,
                 drain, locals>>

\* line 544
grub_install ==
  /\ pc = "grub-install"
  /\ IF ~fs["dest"].chroot_prepared
       THEN Raise(AssertionError) /\ UNCHANGED <<trace, disk>>
       ELSE \E rc \in RCs :
              /\ trace' = Append(trace, Ev("chroot grub-install", rc))
              /\ IF rc = 0
                   THEN disk' = [disk EXCEPT !.grub = TRUE] /\ Goto("main_return")
                   ELSE Raise(CalledProcessError(rc)) /\ UNCHANGED disk
  /\ UNCHANGED <<cur, args, env, fs, jobs, held, umaskv, final, out, executed,
                 drain, bind, test>>

\* main returns normally: the try block falls through to finally
main_return ==
  /\ pc = "main_return"
  /\ Goto("finally")
  /\ UNCHANGED <<cur, args, env, fs, jobs, held, umaskv, final, out, trace,
                 executed, drain, locals>>

\* =================================================================== __main__
\* lines 554-557: only subclasses of Exception are caught, and re-raised
except_ExceptionNoFinally ==
  /\ pc = "except"
  /\ IF IsException(exc)
       THEN /\ Emit("abnormal termination (see error at end of output)")
            /\ abnormal_termination' = TRUE
            /\ Goto("finally")
       ELSE Goto("end") /\ UNCHANGED <<out, abnormal_termination>>
  /\ UNCHANGED <<cur, args, env, fs, jobs, held, umaskv, exitStatus, trace,
                 executed, drain, locals>>

except_ExceptionSwallow ==
  /\ pc = "except"
  /\ IF IsException(exc)
       THEN /\ Emit("abnormal termination (see error at end of output)")
            /\ exc' = NoExc
       ELSE UNCHANGED <<out, exc>>
  /\ pc' = "finally"
  /\ UNCHANGED <<cur, args, env, fs, jobs, held, umaskv, final, trace,
                 executed, drain, locals, raised>>

except_Exception ==
  /\ pc = "except"
  /\ IF IsException(exc)
       THEN /\ Emit("abnormal termination (see error at end of output)")
            /\ abnormal_termination' = TRUE
       ELSE UNCHANGED <<out, abnormal_termination>>
  /\ Goto("finally")
  /\ UNCHANGED <<cur, args, env, fs, jobs, held, umaskv, exitStatus, trace,
                 executed, drain, locals>>

\* lines 558-560: entering do_all_jobs
finally ==
  /\ pc = "finally"
  /\ info("running cleanup jobs")
  /\ drainStarts' = drainStarts + 1
  /\ drainJobs' = jobs
  /\ Goto("do_all_jobs")
  /\ UNCHANGED <<cur, args, env, fs, jobs, held, umaskv, final, trace, executed,
                 locals>>

\* lines 74-76: one iteration of the while loop; a raising job ends the
\* loop and replaces the exception in flight
do_all_jobsMut ==
  /\ pc = "do_all_jobs"
  /\ jobs # <<>>
  /\ \E ok \in (IF CanFail(jobs[PopIndex(jobs)]) THEN BOOLEAN ELSE {TRUE}) :
       /\ do_one_job(ok)
       /\ IF ok THEN Goto("do_all_jobs")
          ELSE /\ exc' = JobError(jobs[PopIndex(jobs)])
               /\ pc' = "do_all_jobs"
               /\ UNCHANGED raised
  /\ UNCHANGED <<cur, args, env, final, out, trace, drain, locals>>

do_all_jobs ==
  /\ pc = "do_all_jobs"
  /\ jobs # <<>>
  /\ \E ok \in (IF CanFail(jobs[PopIndex(jobs)]) THEN BOOLEAN ELSE {TRUE}) :
       /\ do_one_job(ok)
       /\ IF ok THEN Goto("do_all_jobs")
          ELSE /\ exc' = JobError(jobs[PopIndex(jobs)])
               /\ pc' = "end"
               /\ UNCHANGED raised
  /\ UNCHANGED <<cur, args, env, final, out, trace, drain, locals>>

do_all_jobs_done ==
  /\ pc = "do_all_jobs"
  /\ jobs = <<>>
  /\ Goto("end")
  /\ UNCHANGED <<cur, args, env, fs, jobs, held, umaskv, final, out, trace,
                 executed, drain, locals>>

\* the exit status of an exception that leaves the script
StatusOfMut(e) == 1
StatusOf(e) == IF e.kind = "SystemExit" THEN e.code ELSE 1

\* after finally: an exception in flight leaves the script (a traceback
\* gives status 1, SystemExit its code); otherwise lines 562-565
end ==
  /\ pc = "end"
  /\ IF exc # NoExc
       THEN exitStatus' = StatusOf(exc) /\ UNCHANGED out
       ELSE IF abnormal_termination
         THEN exitStatus' = 1 /\ UNCHANGED out
         ELSE /\ info("success - please verify your backup (!)")
              /\ exitStatus' = 0
  /\ pc' = "exited"
  /\ UNCHANGED <<cur, args, env, fs, jobs, held, umaskv, exc, raised,
                 abnormal_termination, trace, executed, drain, locals>>

Main ==
  \/ main_add_job_sync
  \/ rsync
  \/ prepare_chroot
  \/ prepare_chroot_bind
  \/ prepare_chroot_done
  \/ fix_fstab_device
  \/ fix_fstab_uuid
  \/ fix_grub_config
  \/ make_luks_root_bootable
  \/ make_luks_root_bootable_crypttab
  \/ make_luks_root_bootable_cryptopts
  \/ make_luks_root_bootable_cryptodisk
  \/ make_luks_root_bootable_conf_hook
  \/ make_luks_root_bootable_update_initramfs
  \/ ensure_bootable_flag
  \/ ensure_bootable_flag_set
  \/ update_grub
  \/ grub_is_installed
  \/ grub_install
  \/ main_return

Unwind ==
  \/ except_Exception
  \/ finally
  \/ do_all_jobs
  \/ do_all_jobs_done
  \/ end

\* the command line after argparse: -p and -f are mutually exclusive
CliArgs ==
  { c \in [dest_uuid : {"", DestPartUuid}, password : OptStr("secret"),
           password_file : OptStr("/root/key"), verbose : BOOLEAN] :
      c.password = None \/ c.password_file = None }

Init ==
  /\ pc = "main"
  /\ mode = "main"
  /\ cur = "src"
  /\ args = NoArgs
  /\ cli \in CliArgs
  /\ luksDev \in [FSNames -> BOOLEAN]
  /\ fs = [f \in FSNames |-> NoFS]
  /\ jobs = <<>>
  /\ held = {}
  /\ umaskv \in UmaskInit
  /\ exc = NoExc
  /\ abnormal_termination = FALSE
  /\ exitStatus = -1
  /\ out = <<>>
  /\ trace = <<>>
  /\ executed = <<>>
  /\ drainStarts = 0
  /\ drainJobs = <<>>
  /\ raised = NoExc
  /\ bind = 0
  /\ pathIn = NoPath
  /\ pathOut = <<>>
  /\ runs = 0
  /\ atCall = NoCall
  /\ disk \in [bootable : BOOLEAN, grub : BOOLEAN, sibling : BOOLEAN]

Next == Construct \/ Main \/ Unwind
Spec == Init /\ [][Next]_vars

\* ================================================================ properties
Range(q) == {q[i] : i \in DOMAIN q}
ExecutedJobs == {executed[i].job : i \in DOMAIN executed}
NoJobRaised == \A i \in DOMAIN executed : executed[i].ok
Ops == {trace[i].op : i \in DOMAIN trace}
Failed(op) == \E i \in DOMAIN trace : trace[i].op = op /\ trace[i].rc # 0
\* number of successful LUKS probes; the constructor in progress has got
\* the answer of its own probe once it has seen one (src) or two (dest)
ProbesOK == Cardinality({i \in DOMAIN trace : trace[i] = Ev("file -ELs", 0)})
Probed == ProbesOK >= (IF cur = "src" THEN 1 ELSE 2)
PasswordGiven == Truthy(args.password) \/ Truthy(args.password_file)
UnwindPcs == {"do_all_jobs", "end", "exited"}
ReleaseJobsOf(r) == {i \in DOMAIN jobs : ResourceOf(jobs[i]) = r}
\* between mkstemp and the add_job of line 205 only the umask restore runs
Registering(r) == r = "password_file" /\ pc \in {"do_one_job", "add_job_remove"}

\* C1: no resource leak.  When the script has exited and no cleanup job
\* raised, nothing the run created is still held; and as long as no cleanup
\* job has raised, every held resource has exactly one release job on the
\* stack (the password file from the statement that registers it, line 205).
C1_NoResourceLeak ==
  /\ (pc = "exited" /\ NoJobRaised) => (held = {} /\ jobs = <<>>)
  /\ NoJobRaised =>
       \A r \in held : Registering(r) \/ Cardinality(ReleaseJobsOf(r)) = 1

C1_Witness ==
  /\ pc = "exited"
  /\ NoJobRaised
  /\ held = {}
  /\ {RemoveJob, LuksCloseJob, RmdirJob, UmountJob, UnbindJob("/dev")} \subseteq ExecutedJobs
  /\ raised # NoExc

\* C2: do_all_jobs runs the jobs in the reverse of push order.  While the
\* drain runs, the k jobs executed so far are the last k pushed, newest
\* first, and the stack is what was pushed before them; a drain in which no
\* job raised leaves the stack empty.
DrainDone == Len(drainJobs) - Len(jobs)
C2_ReverseOrder ==
  pc \in UnwindPcs =>
    /\ DrainDone \in 0..Len(executed)
    /\ jobs = SubSeq(drainJobs, 1, Len(drainJobs) - DrainDone)
    /\ \A i \in 1..DrainDone :
         executed[Len(executed) - DrainDone + i].job = drainJobs[Len(drainJobs) - i + 1]
    /\ (pc = "exited" /\ NoJobRaised) => (jobs = <<>> /\ DrainDone = Len(drainJobs))

C2_Witness ==
  /\ pc = "exited"
  /\ NoJobRaised
  /\ Len(drainJobs) >= 3
  /\ jobs = <<>>
  /\ executed[Len(executed)].job = drainJobs[1]
  /\ executed[Len(executed) - 1].job = drainJobs[2]

\* C3: the sync job is pushed first and stays at the bottom of the stack, so
\* it is executed last: no job is executed after it, the early single-job
\* drain never executes it, and a drain in which no job raised ends with it.
C3_SyncLast ==
  /\ (pc # "main" /\ drainStarts = 0) => (jobs # <<>> /\ jobs[1] = SyncJob)
  /\ \A i \in 2..Len(jobs) : jobs[i] # SyncJob
  /\ drainStarts = 0 => SyncJob \notin ExecutedJobs
  /\ \A i \in DOMAIN executed :
       executed[i].job = SyncJob => (i = Len(executed) /\ jobs = <<>>)
  /\ (pc = "exited" /\ NoJobRaised) =>
       (executed # <<>> /\ executed[Len(executed)].job = SyncJob)

C3_Witness ==
  /\ pc = "exited"
  /\ Len(executed) >= 5
  /\ executed[1].job.func = "umask"
  /\ executed[Len(executed)].job = SyncJob
  /\ LuksCloseJob \in ExecutedJobs

\* C4: do_all_jobs is entered exactly once on every way out of main (return,
\* Exception, SystemExit), and only after main has stopped: once it has been
\* entered no step of main runs any more and it is never entered again.
C4_UnwindOnce ==
  /\ [](/\ drainStarts \in {0, 1}
        /\ (drainStarts = 1) = (pc \in UnwindPcs)
        /\ pc = "exited" => drainStarts = 1)
  /\ [][drainStarts >= 1 => (trace' = trace /\ drainStarts' = drainStarts)]_vars

C4_Witness ==
  /\ pc = "exited"
  /\ drainStarts = 1
  /\ raised = SystemExit(3)
  /\ Len(executed) >= 3

\* C5: a constructor call with both a mountpoint and a uuid, or with neither,
\* fails with the configuration error (a RuntimeError) before any probe.
BothOrNeither == Truthy(args.mountpoint) = Truthy(args.uuid)
C5_ConfigurationError ==
  (mode = "ctor" /\ BothOrNeither /\ pc # "FileSystem.__init__") =>
    (raised.kind = "RuntimeError" /\ trace = <<>>)

\* C6: a destination that is not LUKS but was given a password or password
\* file aborts with exit(2) before any mount attempt: no temporary directory,
\* no mount command, no rmdir/umount job; the process exits with status 2.
C6_PasswordForPlainTarget ==
  (cur = "dest" /\ Probed /\ ~luksDev["dest"] /\ PasswordGiven /\ pc # "not_luks") =>
    /\ raised = SystemExit(2)
    /\ exc = SystemExit(2)
    /\ {"mkdtemp", "mount"} \cap Ops = {}
    /\ {RmdirJob, UmountJob} \cap (Range(jobs) \cup ExecutedJobs) = {}
    /\ held = {}
    /\ exitStatus \in {-1, 2}

C6_Witness ==
  /\ pc = "exited"
  /\ raised = SystemExit(2)
  /\ exitStatus = 2
  /\ Truthy(cli.password)

\* C7: a luksOpen that exits with status 2 aborts with exit(3), any other
\* non-zero status is re-raised as the CalledProcessError (which the handler
\* of __main__ treats as a generic failure); either way luksOpen is the last
\* operation of the steps (no mount follows) and no close job is registered.
LastOp == trace[Len(trace)]
C7_WrongPassphrase ==
  Failed("cryptsetup luksOpen") =>
    /\ LastOp.op = "cryptsetup luksOpen"
    /\ "mount" \notin Ops
    /\ LuksCloseJob \notin (Range(jobs) \cup ExecutedJobs)
    /\ "luks" \notin held
    /\ raised = IF LastOp.rc = 2 THEN SystemExit(3) ELSE CalledProcessError(LastOp.rc)
    /\ (mode = "main" /\ pc # "except") => (abnormal_termination = (LastOp.rc # 2))

C7_Witness ==
  /\ pc = "exited"
  /\ LastOp = Ev("cryptsetup luksOpen", 2)
  /\ raised = SystemExit(3)
  /\ RemoveJob \in ExecutedJobs

\* C8: a LUKS partition with neither password nor password file aborts with
\* exit(4) before the umask is touched, before any temporary password file
\* exists and before luksOpen; the process exits with status 4.
C8_PasswordRequired ==
  (Probed /\ luksDev[cur] /\ ~PasswordGiven /\ pc # "_init_password_file") =>
    /\ raised = SystemExit(4)
    /\ exc = SystemExit(4)
    /\ umaskv \in UmaskInit
    /\ \A j \in Range(jobs) \cup ExecutedJobs : j.func \notin {"umask", "remove"}
    /\ {"mkstemp", "write password", "cryptsetup luksOpen"} \cap Ops = {}
    /\ held = {}
    /\ exitStatus \in {-1, 4}

C8_Witness ==
  /\ pc = "exited"
  /\ cur = "dest"
  /\ raised = SystemExit(4)
  /\ exitStatus = 4

\* C9: status 0 only when main returned with every step successful; a step
\* that raises an Exception gives status 1; no status before the drain ran.
\* (status 1 of the boot-sector probe means "absent", not failure)
StepFailed(e) == e.rc # 0 /\ ~(e.op = "dd | strings | grep -q GRUB" /\ e.rc = 1)
AllStepsSucceeded ==
  /\ raised = NoExc
  /\ \A i \in DOMAIN trace : ~StepFailed(trace[i])
  /\ trace # <<>>
  /\ LastOp \in {Ev("dd | strings | grep -q GRUB", 0), Ev("chroot grub-install", 0)}
C9_ExitStatus ==
  /\ exitStatus = 0 => AllStepsSucceeded
  /\ (pc = "exited" /\ IsException(raised)) => exitStatus = 1
  /\ exitStatus # -1 => (pc = "exited" /\ drainStarts = 1)

C9_Witness ==
  /\ pc = "exited"
  /\ raised = CalledProcessError(2)
  /\ LastOp.op = "rsync"
  /\ exitStatus = 1
  /\ UmountJob \in ExecutedJobs

IsExternal(e) == e.job.func # "setattr"
ExternalExecuted ==
  LET ext == SelectSeq(executed, IsExternal)
  IN [i \in 1..Len(ext) |-> ext[i].job]
IsPrefix(a, b) == Len(a) <= Len(b) /\ a = SubSeq(b, 1, Len(a))
ExpectedPlainUnwind ==
  <<UnbindJob("/dev"), UnbindJob("/sys"), UnbindJob("/proc"), UmountJob,
    RmdirJob, SyncJob>>
C11_PlainUnwindOrder ==
  (AllStepsSucceeded /\ ~luksDev["dest"]) =>
    /\ IsPrefix(ExternalExecuted, ExpectedPlainUnwind)
    /\ (pc = "exited" /\ NoJobRaised) =>
         (ExternalExecuted = ExpectedPlainUnwind /\ exitStatus = 0)

C11_Witness ==
  /\ pc = "exited"
  /\ ~luksDev["dest"]
  /\ AllStepsSucceeded
  /\ ExternalExecuted = ExpectedPlainUnwind
  /\ exitStatus = 0

\* C12: the LUKS mapping is closed only after every bind unmount, the
\* unmount of the filesystem and the removal of its directory, and before
\* the sync; a drain in which no job raised closes every mapping it opened.
MountJobs == {UmountJob, RmdirJob} \cup {UnbindJob(b) : b \in Binds}
C12_LuksCloseOrder ==
  /\ \A i \in DOMAIN executed :
       executed[i].job = LuksCloseJob =>
         /\ \A k \in DOMAIN drainJobs :
              drainJobs[k] \in MountJobs =>
                \E m \in 1..(i - 1) : executed[m].job = drainJobs[k]
         /\ Range(jobs) \cap MountJobs = {}
         /\ \A m \in 1..i : executed[m].job # SyncJob
  /\ (pc = "exited" /\ NoJobRaised /\ LuksCloseJob \in Range(drainJobs)) =>
       LuksCloseJob \in ExecutedJobs

C12_Witness ==
  /\ pc = "exited"
  /\ exitStatus = 0
  /\ \E i \in DOMAIN executed :
       /\ executed[i].job = LuksCloseJob
       /\ executed[i - 1].job = RmdirJob
       /\ executed[i - 2].job = UmountJob

\* C13: the steps start in the fixed order of main, none is skipped, and a
\* step starts only when everything before it succeeded: a failed operation
\* is the last one, and once main has raised nothing more is run.
\* (file -ELs and blkid -s UUID are run by several steps; the step is told
\* from what has run before)
Before(i) == {trace[k].op : k \in 1..(i - 1)}
StepAt(i) ==
  LET op == trace[i].op IN
  IF op = "df" THEN 1
  ELSE IF op \in {"blkid -U", "mkstemp", "write password", "cryptsetup luksOpen",
                  "mkdtemp", "mount"} THEN 2
  ELSE IF op = "rsync" THEN 3
  ELSE IF \E b \in Binds : op = "mount --bind " \o b THEN 4
  ELSE IF op \in {"replace device in etc/fstab", "replace uuid in etc/fstab"} THEN 5
  ELSE IF op = "sub resume= in etc/default/grub" THEN 6
  ELSE IF op \in {"add line to /etc/crypttab",
                  "replace cryptopts in /etc/default/grub",
                  "add GRUB_ENABLE_CRYPTODISK to /etc/default/grub",
                  "add CRYPTSETUP=y to /etc/cryptsetup-initramfs/conf-hook",
                  "chroot update-initramfs -u"} THEN 7
  ELSE IF op \in {"sfdisk --activate --no-reread", "sfdisk --activate"} THEN 8
  ELSE IF op = "chroot update-grub" THEN 9
  ELSE IF op \in {"dd | strings | grep -q GRUB", "chroot grub-install"} THEN 10
  ELSE IF "rsync" \in Before(i) THEN 7
  ELSE IF "blkid -U" \in Before(i) THEN 2
  ELSE 1
C13_StepOrder ==
  /\ [](/\ \A i \in 1..(Len(trace) - 1) :
             /\ ~StepFailed(trace[i])
             /\ StepAt(i + 1) - StepAt(i) \in {0, 1}
        /\ trace # <<>> => StepAt(1) = 1)
  /\ [][raised # NoExc => trace' = trace]_vars

C13_Witness ==
  /\ pc = "exited"
  /\ luksDev["dest"]
  /\ AllStepsSucceeded
  /\ {StepAt(i) : i \in DOMAIN trace} = 1..10

\* ============================================================ FileSystem.path
MaxSegLen == 3           \* longest path segment tried
MaxBits == 2             \* most segments in one call
MaxSeps == 2             \* most leading separators added
path_sep == "/"
PathChars == {path_sep, "p"}
RECURSIVE Strings(_)
Strings(n) ==
  IF n = 0 THEN {""}
  ELSE Strings(n - 1) \cup {s \o c : s \in Strings(n - 1), c \in PathChars}
RECURSIVE Repeat(_, _)
Repeat(c, n) == IF n = 0 THEN "" ELSE c \o Repeat(c, n - 1)

\* str.lstrip(path_sep)
RECURSIVE lstrip(_)
lstripMut(s) == s
lstrip(s) ==
  IF Len(s) > 0 /\ SubSeq(s, 1, 1) = path_sep
    THEN lstrip(SubSeq(s, 2, Len(s)))
    ELSE s

\* posixpath.join(a, b)
EndsWith(s, p) == Len(s) >= Len(p) /\ SubSeq(s, Len(s) - Len(p) + 1, Len(s)) = p
join(a, b) ==
  IF StartsWith(b, path_sep) THEN b
  ELSE IF a = "" \/ EndsWith(a, path_sep) THEN a \o b
  ELSE a \o path_sep \o b

\* lines 246-255
RECURSIVE path(_, _)
path(mountpoint, bits) ==
  IF bits = <<>> THEN mountpoint
  ELSE path(join(mountpoint, lstrip(Head(bits))), Tail(bits))

\* the two calls compared: the segments as given, and with k separators put
\* in front of segment i
PathCalls ==
  <<pathIn.bits,
    [pathIn.bits EXCEPT ![pathIn.i] = Repeat(path_sep, pathIn.k) \o pathIn.bits[pathIn.i]]>>

FileSystem_path ==
  /\ pc = "path"
  /\ Len(pathOut) < Len(PathCalls)
  /\ pathOut' = Append(pathOut, path(pathIn.mountpoint, PathCalls[Len(pathOut) + 1]))
  /\ UNCHANGED <<pc, cur, args, env, fs, jobs, held, umaskv, exc, raised, final,
                 out, trace, executed, drain, bind, disk, pathIn, runs, atCall>>

\* everything a harness for one operation leaves at rest
IdleState ==
  /\ cur = "dest"
  /\ cli = [dest_uuid |-> None, password |-> None, password_file |-> None,
            verbose |-> FALSE]
  /\ jobs = <<>>
  /\ held = {}
  /\ umaskv \in UmaskInit
  /\ exc = NoExc
  /\ raised = NoExc
  /\ abnormal_termination = FALSE
  /\ exitStatus = -1
  /\ out = <<>>
  /\ trace = <<>>
  /\ executed = <<>>
  /\ drainStarts = 0
  /\ drainJobs = <<>>
  /\ bind = 0
  /\ runs = 0
  /\ atCall = NoCall
Idle == IdleState /\ args = NoArgs

MountPoints == {"/", "/tmp/prog__mount", "p/"}
PathInit ==
  /\ Idle
  /\ pc = "path"
  /\ mode = "path"
  /\ luksDev = [f \in FSNames |-> FALSE]
  /\ fs = [f \in FSNames |-> NoFS]
  /\ disk = NoDisk
  /\ pathIn \in {a \in [mountpoint : MountPoints,
                        bits : UNION {[1..n -> Strings(MaxSegLen)] : n \in 1..MaxBits},
                        i : 1..MaxBits, k : 1..MaxSeps] : a.i <= Len(a.bits)}
  /\ pathOut = <<>>

PathNext == FileSystem_path
PathSpec == PathInit /\ [][PathNext]_vars

\* C14: leading separators of a segment do not change the result of path,
\* and the result always starts with the mount point.
C14_PathNormalisation ==
  /\ \A n \in DOMAIN pathOut : StartsWith(pathOut[n], pathIn.mountpoint)
  /\ Len(pathOut) = 2 => pathOut[1] = pathOut[2]

C14_Witness ==
  /\ pathIn.mountpoint = "/tmp/prog__mount"
  /\ PathCalls = << <<"p", "pp">>, <<"//p", "pp">> >>
  /\ pathOut = <<"/tmp/prog__mount/p/pp", "/tmp/prog__mount/p/pp">>

\* C15: when the constructor reaches its final asserts, and so whenever it
\* returns, the five attributes are set and non-empty: by mount point or by
\* UUID, LUKS or not.  The asserts of lines 187-191 never fail.
AllFieldsSet(f) ==
  /\ FieldOK(fs[f].partition_device_path)
  /\ FieldOK(fs[f].uuid_on_partition)
  /\ FieldOK(fs[f].filesystem_device_path)
  /\ FieldOK(fs[f].filesystem_uuid)
  /\ FieldOK(fs[f].mountpoint)
C15_FieldsSet == pc \in {"asserts", "ctor_returned"} => AllFieldsSet(cur)

C15_Witness ==
  /\ pc = "ctor_returned"
  /\ luksDev["dest"]
  /\ ~Truthy(args.mountpoint)
  /\ fs["dest"].filesystem_device_path = CRYPTSETUP_PATH_TEMPLATE \o DestPartUuid
  /\ fs["dest"].filesystem_uuid = DestFsUuid
  /\ fs["dest"].mountpoint = "/tmp/prog__mount"

\* ======================================================= ensure_bootable_flag
\* the step run repeatedly on a constructed destination: after a run that
\* returned, it is run again
MaxRuns == 3
ensure_bootable_flag_again ==
  /\ pc = "update-grub"
  /\ mode = "flag"
  /\ runs < MaxRuns
  /\ runs' = runs + 1
  /\ Goto("ensure_bootable_flag")
  /\ UNCHANGED <<cur, args, env, fs, jobs, held, umaskv, final, out, trace,
                 executed, drain, bind, disk, pathIn, pathOut, atCall>>

BootFlagInit ==
  /\ Idle
  /\ pc = "ensure_bootable_flag"
  /\ mode = "flag"
  /\ luksDev = [f \in FSNames |-> FALSE]
  /\ \E dev \in BlkidUOut \ {""} :
       fs = [f \in FSNames |->
               IF f = "dest"
                 THEN [NoFS EXCEPT !.partition_device_path = dev,
                                   !.uuid_on_partition = DestPartUuid,
                                   !.filesystem_device_path = dev,
                                   !.filesystem_uuid = DestPartUuid,
                                   !.mountpoint = "/tmp/prog__mount"]
                 ELSE NoFS]
  /\ disk \in [bootable : BOOLEAN, grub : BOOLEAN, sibling : BOOLEAN]
  /\ pathIn = NoPath
  /\ pathOut = <<>>

BootFlagNext ==
  \/ ensure_bootable_flag
  \/ ensure_bootable_flag_set
  \/ ensure_bootable_flag_again
BootFlagSpec == BootFlagInit /\ [][BootFlagNext]_vars

\* C16: the set command is issued only right after a probe that did not list
\* the partition, never while the flag is set, and at most once however
\* often the step is run.
SetCommands == {i \in DOMAIN trace : trace[i].op = "sfdisk --activate"}
C16_BootableFlagOnce ==
  /\ [](/\ Cardinality(SetCommands) <= 1
        /\ \A i \in SetCommands :
             i > 1 /\ trace[i - 1] = Ev("sfdisk --activate --no-reread", 0)
        /\ pc = "sfdisk --activate" =>
             ~Contains(SfdiskOut, fs["dest"].partition_device_path))
  /\ [][Cardinality(SetCommands') > Cardinality(SetCommands) => ~disk.bootable]_vars

C16_Witness ==
  /\ runs = MaxRuns
  /\ pc = "update-grub"
  /\ disk.bootable
  /\ Cardinality(SetCommands) = 1
  /\ trace[2] = Ev("sfdisk --activate", 0)
  /\ Len(trace) = MaxRuns + 2

\* ========================================================== grub_is_installed
GrubProbe == "dd | strings | grep -q GRUB"
GrubInstall == "chroot grub-install"

\* C17: the install command runs iff the boot-sector probe exited with status
\* 1; after status 0 no install runs, and any other status is raised as the
\* probe's failure with no install.
C17_InstallIffAbsent ==
  /\ \A i \in DOMAIN trace :
       trace[i].op = GrubInstall => i > 1 /\ trace[i - 1] = Ev(GrubProbe, 1)
  /\ \A i \in DOMAIN trace :
       trace[i].op = GrubProbe =>
         CASE trace[i].rc = 1 ->
                IF i = Len(trace) THEN pc = "grub-install" /\ raised = NoExc
                ELSE trace[i + 1].op = GrubInstall
           [] trace[i].rc = 0 ->
                i = Len(trace) /\ raised = NoExc /\ pc # "grub-install"
           [] OTHER ->
                /\ i = Len(trace)
                /\ raised = CalledProcessError(trace[i].rc)
                /\ pc # "grub-install"

C17_Witness ==
  /\ pc = "exited"
  /\ Ev(GrubProbe, 1) \in Range(trace)
  /\ LastOp = Ev(GrubInstall, 0)
  /\ exitStatus = 0

\* ==================================================== make_luks_root_bootable
PlainEdits ==
  {"replace device in etc/fstab", "replace uuid in etc/fstab",
   "sub resume= in etc/default/grub"}
LuksEdits ==
  {"add line to /etc/crypttab", "replace cryptopts in /etc/default/grub",
   "add GRUB_ENABLE_CRYPTODISK to /etc/default/grub",
   "add CRYPTSETUP=y to /etc/cryptsetup-initramfs/conf-hook"}
LuksSteps == LuksEdits \cup {"chroot update-initramfs -u"}

\* C18: with a destination that is not LUKS-encrypted, no crypttab, cryptopts,
\* crypto-disk or conf-hook edit is made and update-initramfs never runs; the
\* only files edited are etc/fstab and etc/default/grub.
C18_LuksOnlyMutations ==
  ~luksDev["dest"] =>
    /\ Ops \cap LuksSteps = {}
    /\ Ops \cap (PlainEdits \cup LuksEdits) \subseteq PlainEdits
    /\ pc \notin {"crypttab", "cryptopts", "cryptodisk", "conf-hook", "update-initramfs"}

C18_Witness ==
  /\ ~luksDev["dest"]
  /\ pc = "exited"
  /\ exitStatus = 0
  /\ PlainEdits \subseteq Ops

\* ================================================================== __main__
SuccessLine == "success - please verify your backup (!)"
AbnormalLine == "abnormal termination (see error at end of output)"
AllSucceeded == raised = NoExc /\ NoJobRaised

\* C19 as stated: every run ends with one of the two lines as its last
\* line, the success line exactly when all steps and the unwind succeeded,
\* the abnormal-termination line on every other run.
C19_FinalStatusLineAlways ==
  pc = "exited" =>
    /\ SuccessLine \in Range(out) <=> AllSucceeded
    /\ AbnormalLine \in Range(out) <=> ~AllSucceeded
    /\ out # <<>> /\ out[Len(out)] \in {SuccessLine, AbnormalLine}

\* C19: the success line is logged through info() exactly when all steps and
\* the unwind succeeded (status 0) and is then the last line; the abnormal
\* line is logged exactly when main raised something other than SystemExit;
\* a run ending by exit(2|3|4) or by a raising cleanup job after successful
\* steps logs neither.
C19_FinalStatusLine ==
  pc = "exited" =>
    /\ exitStatus = 0 <=> AllSucceeded
    /\ SuccessLine \in Range(out) <=> (AllSucceeded /\ cli.verbose)
    /\ SuccessLine \in Range(out) => out[Len(out)] = SuccessLine
    /\ AbnormalLine \in Range(out) <=> raised.kind \notin {"none", "SystemExit"}
    /\ raised.kind = "SystemExit" => Range(out) \cap {SuccessLine, AbnormalLine} = {}
    /\ (raised = NoExc /\ ~NoJobRaised) =>
         Range(out) \cap {SuccessLine, AbnormalLine} = {}

C19_Witness ==
  /\ pc = "exited"
  /\ cli.verbose
  /\ raised = NoExc
  /\ ~NoJobRaised
  /\ exitStatus = 1
  /\ Range(out) \cap {SuccessLine, AbnormalLine} = {}

\* ====================================================================== main
BootCompare == "compare boot directories"
StepsReturned ==
  \/ pc \in {"grub_is_installed", "grub-install", "main_return"}
  \/ pc \in UnwindPcs \cup {"finally"} /\ raised = NoExc

\* C20 as stated: before the data transfer the two boot directories are
\* compared to decide whether the bootloader configuration is regenerated.
C20_BootDirectoriesCompared ==
  \A i \in DOMAIN trace :
    trace[i].op = "rsync" => \E j \in 1..(i - 1) : trace[j].op = BootCompare

\* C20: no comparison of the boot directories is made; the data transfer
\* directly follows the mount that ends the destination's construction, and
\* the bootloader configuration is regenerated by the chrooted update-grub
\* on every run whose preceding steps succeeded.
C20_UnconditionalRegeneration ==
  /\ BootCompare \notin Ops
  /\ \A i \in DOMAIN trace :
       trace[i].op = "rsync" => i > 1 /\ trace[i - 1] = Ev("mount", 0)
  /\ StepsReturned => Ev("chroot update-grub", 0) \in Range(trace)
  /\ \A i \in DOMAIN trace :
       trace[i].op = "chroot update-grub" =>
         i > 1 /\ trace[i - 1].rc = 0
           /\ trace[i - 1].op \in {"sfdisk --activate --no-reread", "sfdisk --activate"}

C20_Witness ==
  /\ pc = "exited"
  /\ exitStatus = 0
  /\ Ev("rsync", 0) \in Range(trace)
  /\ Ev("chroot update-grub", 0) \in Range(trace)
  /\ Ev("dd | strings | grep -q GRUB", 0) \in Range(trace)

\* ======================================================= Cleaner.do_all_jobs
\* C21: a job that raises during the drain is the last job executed; the
\* jobs pushed before it stay on the stack unexecuted (the disk sync among
\* them), and its error leaves the drain and ends the run with status 1.
C21_DrainStopsAtFailure ==
  \A i \in DOMAIN executed :
    ~executed[i].ok =>
      /\ i = Len(executed)
      /\ pc \in {"end", "exited"}
      /\ drainStarts = 1
      /\ executed[i].job = drainJobs[Len(jobs) + 1]
      /\ jobs = SubSeq(drainJobs, 1, Len(jobs))
      /\ Range(jobs) \cap ExecutedJobs = {}
      /\ jobs # <<>> /\ jobs[1] = SyncJob
      /\ exc = JobError(executed[i].job)
      /\ pc = "exited" => exitStatus = 1

C21_Witness ==
  /\ pc = "exited"
  /\ raised = NoExc
  /\ executed[Len(executed)] = [job |-> UmountJob, ok |-> FALSE]
  /\ RmdirJob \in Range(jobs)
  /\ "mount" \in held
  /\ exitStatus = 1

\* ============================================ FileSystem._init_password_file
UmaskRuns == {i \in DOMAIN executed : executed[i].job.func = "umask"}
RestoreJob == UmaskJob(atCall.umaskv)
Restored == Append(atCall.executed, [job |-> RestoreJob, ok |-> TRUE])
LiteralPassword == Truthy(args.password) /\ ~Truthy(args.password_file)

\* C22: with a literal password the restore job is pushed when the umask is
\* tightened and is the one job run by the do_one_job call after mkstemp; on
\* return the umask is the one before the call, the restore job is off the
\* stack for good and the stack is the one before the call plus the removal
\* of the password file.  If mkstemp fails the restore job is still on the
\* stack and is run by the unwind.
C22_UmaskEarlyDrain ==
  /\ pc \in {"mkstemp", "do_one_job"} =>
       /\ jobs = Append(atCall.jobs, RestoreJob)
       /\ umaskv = TightUmask
       /\ executed = atCall.executed
  /\ pc = "add_job_remove" =>
       jobs = atCall.jobs /\ umaskv = atCall.umaskv /\ executed = Restored
  /\ (pc \in {"write_password", "set_filesystem_device_path"} /\ LiteralPassword) =>
       /\ umaskv = atCall.umaskv
       /\ jobs = Append(atCall.jobs, RemoveJob)
       /\ executed = Restored
  /\ Cardinality(UmaskRuns) <= 1
  /\ UmaskRuns # {} => \A k \in DOMAIN jobs : jobs[k].func # "umask"
  /\ Failed("mkstemp") =>
       /\ raised = OSError
       /\ pc \in {"except", "finally"} =>
            jobs = Append(atCall.jobs, RestoreJob) /\ umaskv = TightUmask
       /\ pc \in {"end", "exited"} =>
            /\ executed[Len(atCall.executed) + 1] = [job |-> RestoreJob, ok |-> TRUE]
            /\ umaskv = atCall.umaskv

C22_Witness ==
  /\ pc = "set_filesystem_device_path"
  /\ LiteralPassword
  /\ atCall.jobs = <<SyncJob>>
  /\ jobs = <<SyncJob, RemoveJob>>
  /\ umaskv = atCall.umaskv
  /\ umaskv # TightUmask
  /\ UmaskRuns = {1}

\* =================================================================== Cleaner
Pushed(js, js2) == Len(js2) = Len(js) + 1 /\ SubSeq(js2, 1, Len(js)) = js

\* C23: until the final drain begins every step leaves the stack as it is or
\* appends one job to it, except the one early do_one_job call, which pops
\* the umask-restore job from the top; no other job is executed before the
\* final drain.
C23_AppendOnly ==
  /\ [](drainStarts = 0 =>
          /\ Len(executed) <= 1
          /\ \A i \in DOMAIN executed : executed[i].job.func = "umask")
  /\ [][drainStarts' = 0 =>
          \/ jobs' = jobs
          \/ Pushed(jobs, jobs')
          \/ /\ pc = "do_one_job"
             /\ executed = <<>>
             /\ jobs = Append(jobs', RestoreJob)
             /\ executed' = <<[job |-> RestoreJob, ok |-> TRUE]>>]_vars

C23_Witness ==
  /\ drainStarts = 0
  /\ pc = "main_return"
  /\ Len(executed) = 1
  /\ jobs = <<SyncJob, RemoveJob, LuksCloseJob, RmdirJob, UmountJob,
              UnbindJob(CHROOT_BINDS[1]), UnbindJob(CHROOT_BINDS[2]),
              UnbindJob(CHROOT_BINDS[3]), ResetJob>>

\* ==================================== prepare_chroot / run_chrooted, called
\* in any order on a constructed destination, with cleanup jobs run one at a
\* time in between; the caller catches what a call raises
MaxCalls == 4
CallerPcs == {"idle", "returned", "ctor_raised"}
Call(l) ==
  /\ pc \in CallerPcs
  /\ mode = "chroot"
  /\ runs < MaxCalls
  /\ runs' = runs + 1
  /\ pc' = l
  /\ exc' = NoExc
  /\ raised' = NoExc

call_prepare_chroot ==
  /\ Call("prepare_chroot")
  /\ UNCHANGED <<cur, args, env, fs, jobs, held, umaskv, final, out, trace,
                 executed, drain, bind, disk, pathIn, pathOut, atCall>>

call_run_chrooted ==
  /\ Call("run_chrooted")
  /\ UNCHANGED <<cur, args, env, fs, jobs, held, umaskv, final, out, trace,
                 executed, drain, bind, disk, pathIn, pathOut, atCall>>

run_chrooted == RunChrooted("run_chrooted", "true", "returned")

call_do_one_job ==
  /\ pc \in CallerPcs
  /\ mode = "chroot"
  /\ runs < MaxCalls
  /\ runs' = runs + 1
  /\ jobs # <<>>
  /\ \E ok \in (IF CanFail(jobs[PopIndex(jobs)]) THEN BOOLEAN ELSE {TRUE}) :
       /\ do_one_job(ok)
       /\ pc' = IF ok THEN "returned" ELSE "ctor_raised"
       /\ exc' = IF ok THEN NoExc ELSE JobError(jobs[PopIndex(jobs)])
       /\ raised' = exc'
  /\ UNCHANGED <<cur, args, env, final, out, trace, drain, bind, disk, pathIn,
                 pathOut, atCall>>

ChrootInit ==
  /\ Idle
  /\ pc = "idle"
  /\ mode = "chroot"
  /\ luksDev = [f \in FSNames |-> FALSE]
  /\ fs = [f \in FSNames |->
             IF f = "dest"
               THEN [NoFS EXCEPT !.partition_device_path = "/dev/sdb1",
                                 !.uuid_on_partition = DestPartUuid,
                                 !.filesystem_device_path = "/dev/sdb1",
                                 !.filesystem_uuid = DestPartUuid,
                                 !.mountpoint = "/tmp/prog__mount"]
               ELSE [NoFS EXCEPT !.partition_device_path = "/dev/sda1",
                                 !.uuid_on_partition = SrcPartUuid,
                                 !.filesystem_device_path = "/dev/sda1",
                                 !.filesystem_uuid = SrcPartUuid,
                                 !.mountpoint = "/"]]
  /\ disk = NoDisk
  /\ pathIn = NoPath
  /\ pathOut = <<>>

ChrootNext ==
  \/ call_prepare_chroot
  \/ call_run_chrooted
  \/ call_do_one_job
  \/ prepare_chroot
  \/ prepare_chroot_bind
  \/ prepare_chroot_done
  \/ run_chrooted
ChrootSpec == ChrootInit /\ [][ChrootNext]_vars


\* number of times job j was pushed, and of successful runs of operation op
Pushes(j) ==
  Cardinality({i \in DOMAIN jobs : jobs[i] = j})
  + Cardinality({i \in DOMAIN executed : executed[i].job = j})
Succeeded(op) == Cardinality({i \in DOMAIN trace : trace[i] = Ev(op, 0)})
BindOp(b) == "mount --bind " \o b
LastBind == CHROOT_BINDS[Len(CHROOT_BINDS)]

\* C24: prepare_chroot pushes one unmount job per bind, each directly after
\* its bind mount succeeded, and one reset job after the last; called while
\* chroot_prepared is true it raises AssertionError with no bind mount and
\* no push; called while it is false (also after the reset job ran) it
\* proceeds.
C24_PrepareChrootJobs ==
  /\ [](/\ \A b \in Binds : Pushes(UnbindJob(b)) = Succeeded(BindOp(b))
        /\ Pushes(ResetJob) =
             Succeeded(BindOp(LastBind)) - (IF pc = "chroot_prepared" THEN 1 ELSE 0))
  /\ [][\A b \in Binds :
          Pushes(UnbindJob(b))' > Pushes(UnbindJob(b)) =>
            /\ trace' = Append(trace, Ev(BindOp(b), 0))
            /\ jobs' = Append(jobs, UnbindJob(b))]_vars
  /\ [][pc = "prepare_chroot" =>
          IF fs["dest"].chroot_prepared
            THEN /\ raised' = AssertionError
                 /\ pc' = "ctor_raised"
                 /\ jobs' = jobs /\ trace' = trace /\ held' = held
            ELSE pc' = "mount --bind" /\ raised' = NoExc]_vars

C24_Witness ==
  /\ mode = "chroot"
  /\ pc = "returned"
  /\ fs["dest"].chroot_prepared
  /\ [job |-> ResetJob, ok |-> TRUE] \in Range(executed)
  /\ ResetJob \in Range(jobs)
  /\ Succeeded(BindOp(LastBind)) = 2


\* C25: chroot_prepared is false from construction until all three bind
\* mounts have succeeded; when a bind mount fails it stays false, no reset
\* job is pushed, and the unmount jobs on the stack are those of the binds
\* that succeeded.
BindsDone == {b \in Binds : Ev(BindOp(b), 0) \in Range(trace)}
BindFailed == \E b \in Binds : Failed(BindOp(b))
C25_PreparedAfterAllBinds ==
  /\ \A f \in FSNames :
       fs[f].chroot_prepared => f = "dest" /\ BindsDone = Binds
  /\ "rsync" \notin Ops => ~fs["dest"].chroot_prepared
  /\ (BindFailed /\ drainStarts = 0) =>
       /\ ~fs["dest"].chroot_prepared
       /\ Pushes(ResetJob) = 0
       /\ {b \in Binds : UnbindJob(b) \in Range(jobs)} = BindsDone
       /\ \A b \in Binds : Pushes(UnbindJob(b)) <= 1
       /\ raised.kind = "CalledProcessError"
  /\ BindFailed => ~fs["dest"].chroot_prepared /\ Pushes(ResetJob) = 0

C25_Witness ==
  /\ pc = "except"
  /\ Failed(BindOp(CHROOT_BINDS[3]))
  /\ BindsDone = {CHROOT_BINDS[1], CHROOT_BINDS[2]}
  /\ UnbindJob(CHROOT_BINDS[2]) = jobs[Len(jobs)]
  /\ ~fs["dest"].chroot_prepared


\* the whole run, and the two methods called directly
RunChrootedSpec == (Init \/ ChrootInit) /\ [][Next \/ ChrootNext]_vars

ChrootedPcs == {"run_chrooted", "update-initramfs", "update-grub", "grub-install"}
IsChrooted(e) == StartsWith(e.op, "chroot ")

\* C26: run_chrooted called while chroot_prepared is false raises
\* AssertionError and executes nothing; in the run under __main__ every
\* chrooted command is executed after all binds succeeded and the reset job
\* was pushed, with the flag set, and before the handler or the drain starts.
C26_RunChrootedRequiresPrepared ==
  /\ [][(pc \in ChrootedPcs /\ ~fs["dest"].chroot_prepared) =>
          /\ raised' = AssertionError
          /\ trace' = trace
          /\ pc' \in {"ctor_raised", "except"}]_vars
  /\ [][(trace' # trace /\ IsChrooted(trace'[Len(trace')])) =>
          /\ trace' = Append(trace, trace'[Len(trace')])
          /\ pc \in ChrootedPcs
          /\ fs["dest"].chroot_prepared
          /\ mode = "main" =>
               /\ BindsDone = Binds
               /\ ResetJob \in Range(jobs)
               /\ raised = NoExc
               /\ drainStarts = 0]_vars
  /\ []((mode = "main" /\ pc \in ChrootedPcs) => fs["dest"].chroot_prepared)

C26_Witness ==
  /\ mode = "chroot"
  /\ pc = "ctor_raised"
  /\ raised = AssertionError
  /\ ~fs["dest"].chroot_prepared
  /\ Ev(BindOp(LastBind), 0) \in Range(trace)
  /\ \A i \in DOMAIN trace : ~IsChrooted(trace[i])

\* ====================================================== FileSystem._luks_open
LuksOpen == "cryptsetup luksOpen"

\* C27: the close job is pushed in the step in which luksOpen succeeds, so
\* it is on the stack whenever a later step of the constructor runs or
\* fails; it is pushed as often as luksOpen succeeded, never after a failed
\* luksOpen.
C27_LuksCloseIffOpened ==
  /\ [](/\ Pushes(LuksCloseJob) = Succeeded(LuksOpen)
        /\ Failed(LuksOpen) => Pushes(LuksCloseJob) = 0
        /\ (Succeeded(LuksOpen) = 1 /\ drainStarts = 0) =>
             LuksCloseJob \in Range(jobs) /\ "luks" \in held)
  /\ [][(trace' # trace /\ trace'[Len(trace')] = Ev(LuksOpen, 0)) =>
          jobs' = Append(jobs, LuksCloseJob)]_vars
  /\ [][Pushes(LuksCloseJob)' > Pushes(LuksCloseJob) =>
          trace' = Append(trace, Ev(LuksOpen, 0))]_vars

C27_Witness ==
  /\ pc = "except"
  /\ Succeeded(LuksOpen) = 1
  /\ LastOp.op = "blkid -s UUID"
  /\ LastOp.rc # 0
  /\ jobs[Len(jobs)] = LuksCloseJob

\* ========================================================= FileSystem._mount
\* the jobs the final drain has executed so far, in order
Drained == SubSeq(executed, Len(executed) - DrainDone + 1, Len(executed))

\* C28: the rmdir job is pushed in the step that creates the directory, so
\* it is the top of the stack when the mount is attempted; the umount job is
\* pushed only in the step in which the mount succeeds.  After a failed
\* mount no umount job exists and the drain starts with the rmdir; after a
\* successful mount the rmdir is run directly after the successful umount.
C28_MountJobs ==
  /\ [][(trace' # trace /\ trace'[Len(trace')] = Ev("mkdtemp", 0)) =>
          jobs' = Append(jobs, RmdirJob)]_vars
  /\ [][Pushes(UmountJob)' > Pushes(UmountJob) =>
          /\ trace' = Append(trace, Ev("mount", 0))
          /\ jobs[Len(jobs)] = RmdirJob
          /\ jobs' = Append(jobs, UmountJob)]_vars
  /\ [](/\ pc = "mount" => jobs[Len(jobs)] = RmdirJob /\ Pushes(UmountJob) = 0
        /\ Pushes(UmountJob) = Succeeded("mount")
        /\ Pushes(RmdirJob) = Succeeded("mkdtemp")
        /\ Failed("mount") =>
             /\ Pushes(UmountJob) = 0
             /\ drainStarts = 0 => jobs[Len(jobs)] = RmdirJob
             /\ (drainStarts = 1 /\ DrainDone > 0) => Drained[1].job = RmdirJob
        /\ \A i \in DOMAIN executed :
             (executed[i].job = RmdirJob /\ Succeeded("mount") = 1) =>
               i > 1 /\ executed[i - 1] = [job |-> UmountJob, ok |-> TRUE])

C28_Witness ==
  /\ pc = "exited"
  /\ Failed("mount")
  /\ Drained[1] = [job |-> RmdirJob, ok |-> TRUE]
  /\ "mountdir" \notin held
  /\ UmountJob \notin ExecutedJobs

\* ==================================================== make_luks_root_bootable
LuksEditOrder ==
  <<"add line to /etc/crypttab", "replace cryptopts in /etc/default/grub",
    "add GRUB_ENABLE_CRYPTODISK to /etc/default/grub",
    "add CRYPTSETUP=y to /etc/cryptsetup-initramfs/conf-hook">>
UpdateInitramfs == "chroot update-initramfs -u"
EditFailed == \E k \in DOMAIN LuksEditOrder : Failed(LuksEditOrder[k])

\* C29: with a LUKS destination the initramfs regeneration starts only
\* directly after the four edits succeeded, in their order; the bootable-flag
\* probe directly follows the successful regeneration, and update-grub comes
\* later still; a failed edit ends the steps, so no regeneration runs.
C29_LuksRepairOrder ==
  /\ \A i \in DOMAIN trace :
       trace[i].op = UpdateInitramfs =>
         /\ luksDev["dest"]
         /\ i > Len(LuksEditOrder)
         /\ \A k \in DOMAIN LuksEditOrder :
              trace[i - Len(LuksEditOrder) + k - 1] = Ev(LuksEditOrder[k], 0)
  /\ luksDev["dest"] =>
       \A i \in DOMAIN trace :
         /\ trace[i].op = "sfdisk --activate --no-reread" =>
              i > 1 /\ trace[i - 1] = Ev(UpdateInitramfs, 0)
         /\ trace[i].op = "chroot update-grub" =>
              \E j \in 1..(i - 1) : trace[j] = Ev(UpdateInitramfs, 0)
  /\ EditFailed =>
       /\ UpdateInitramfs \notin Ops
       /\ LastOp.op \in Range(LuksEditOrder) /\ LastOp.rc # 0
       /\ raised = OSError
       /\ pc \notin {"update-initramfs", "ensure_bootable_flag", "update-grub"}

C29_Witness ==
  /\ luksDev["dest"]
  /\ pc = "update-grub"
  /\ Ev(UpdateInitramfs, 0) \in Range(trace)
  /\ LuksEdits \subseteq Ops

\* ======================================================================= run
\* keyword arguments a caller may pass
NotPassed == "<not passed>"
CallerKwargs ==
  [check : {NotPassed, "True", "False"}, stdout : {NotPassed, "PIPE"},
   stderr : {NotPassed, "PIPE"}, shell : {NotPassed, "True"}]

setdefault(v, d) == IF v = NotPassed THEN d ELSE v

\* lines 291-299: the keyword arguments handed to subprocess.run
run_kwargsMut(kwargs, debugLevel) ==
  [kwargs EXCEPT
     !.check = setdefault(kwargs.check, "True"),
     !.stdout = setdefault(kwargs.stdout, IF debugLevel THEN "sys.stdout" ELSE "DEVNULL"),
     !.stderr = setdefault(kwargs.stderr, IF debugLevel THEN "sys.stderr" ELSE "DEVNULL")]

run_kwargs(kwargs, debugLevel) ==
  [kwargs EXCEPT
     !.check = "True",
     !.stdout = setdefault(kwargs.stdout, IF debugLevel THEN "sys.stdout" ELSE "DEVNULL"),
     !.stderr = setdefault(kwargs.stderr, IF debugLevel THEN "sys.stderr" ELSE "DEVNULL")]

\* lines 289-299
run ==
  /\ pc = "run"
  /\ args' = [args EXCEPT !.kwargs = run_kwargs(args.given, args.debugLevel)]
  /\ Goto("subprocess_run")
  /\ UNCHANGED <<cur, env, fs, jobs, held, umaskv, final, out, trace, executed,
                 drain, locals>>

\* line 308: subprocess.run raises CalledProcessError for a non-zero status
\* iff check is true
subprocess_run ==
  /\ pc = "subprocess_run"
  /\ \E rc \in RCs :
       /\ trace' = Append(trace, Ev("subprocess.run", rc))
       /\ IF args.kwargs.check = "True" /\ rc # 0
            THEN Raise(CalledProcessError(rc))
            ELSE Goto("returned")
  /\ UNCHANGED <<cur, args, env, fs, jobs, held, umaskv, final, out, executed,
                 drain, locals>>

RunInit ==
  /\ IdleState
  /\ pc = "run"
  /\ mode = "run"
  /\ \E k \in CallerKwargs, d \in BOOLEAN :
       args = [given |-> k, debugLevel |-> d, kwargs |-> k]
  /\ luksDev = [f \in FSNames |-> FALSE]
  /\ fs = [f \in FSNames |-> NoFS]
  /\ disk = NoDisk
  /\ pathIn = NoPath
  /\ pathOut = <<>>

RunNext == run \/ subprocess_run
RunSpec == RunInit /\ [][RunNext]_vars

\* C30: whatever keyword arguments the caller passed, the command is run
\* with check = True: a non-zero exit status raises CalledProcessError
\* carrying that status, and status 0 returns without raising.
C30_RunRaisesOnNonZero ==
  /\ pc = "subprocess_run" =>
       /\ args.kwargs.check = "True"
       /\ \A k \in {"stdout", "stderr", "shell"} :
            args.given[k] # NotPassed => args.kwargs[k] = args.given[k]
  /\ pc \in {"returned", "ctor_raised"} =>
       /\ Len(trace) = 1
       /\ raised = IF LastOp.rc = 0 THEN NoExc ELSE CalledProcessError(LastOp.rc)
       /\ pc = "returned" <=> LastOp.rc = 0

C30_Witness ==
  /\ mode = "run"
  /\ args.given.check = "False"
  /\ pc = "ctor_raised"
  /\ LastOp.rc # 0
  /\ raised = CalledProcessError(LastOp.rc)

\* ============================================ chroot_prepared and the binds
BindsHeld == {b \in Binds : BindRes(b) \in held}

\* C31: while chroot_prepared is true all three bind mounts are in place;
\* in the unwind the reset job has run, and the flag is false, before any
\* bind is unmounted.
C31_PreparedImpliesBinds ==
  /\ \A f \in FSNames :
       fs[f].chroot_prepared => f = "dest" /\ BindsHeld = Binds
  /\ \A i \in DOMAIN executed :
       (\E b \in Binds : executed[i].job = UnbindJob(b)) =>
         /\ ~fs["dest"].chroot_prepared
         /\ Pushes(ResetJob) = 1 =>
              \E j \in 1..(i - 1) : executed[j] = [job |-> ResetJob, ok |-> TRUE]

C31_Witness ==
  /\ pc = "do_all_jobs"
  /\ executed # <<>>
  /\ executed[Len(executed)] = [job |-> ResetJob, ok |-> TRUE]
  /\ ~fs["dest"].chroot_prepared
  /\ BindsHeld = Binds
  /\ jobs[Len(jobs)] = UnbindJob(LastBind)

\* ======================================================== Cleaner.do_one_job
\* C32: a job is taken off the stack in the step that executes it, so every
\* job pushed in a run is on the stack or was executed, never both and never
\* executed twice; a job that raised is off the stack and nothing runs after
\* it, and the job run by the early do_one_job is not run by the final drain.
\* (All jobs pushed in one run are different.)
C32_ExecutedAtMostOnce ==
  /\ [](/\ \A j \in Range(jobs) \cup ExecutedJobs : Pushes(j) = 1
        /\ \A i \in DOMAIN executed :
             ~executed[i].ok =>
               i = Len(executed) /\ executed[i].job \notin Range(jobs)
        /\ drainStarts = 1 =>
             \A i \in 1..(Len(executed) - DrainDone) :
               executed[i].job \notin Range(drainJobs))
  /\ [][executed' # executed =>
          /\ jobs # <<>>
          /\ jobs' = SubSeq(jobs, 1, Len(jobs) - 1)
          /\ \E ok \in BOOLEAN :
               executed' = Append(executed, [job |-> jobs[Len(jobs)], ok |-> ok])]_vars

C32_Witness ==
  /\ pc = "exited"
  /\ Len(executed) >= 3
  /\ executed[1].job.func = "umask"
  /\ ~executed[Len(executed)].ok
  /\ executed[Len(executed)].job = LuksCloseJob
  /\ jobs = <<SyncJob, RemoveJob>>

\* ================================== FileSystem(cleaner, mountpoint="/")
MountSteps == {"mkdtemp", "mount", "cryptsetup luksOpen"}

\* C33: constructing the source from its mount point "/" on a partition that
\* is not LUKS runs only probes: no mkdtemp, no mount, and the stack stays as
\* it was (the sync job alone).  Every rmdir or umount job of the run is
\* pushed by the destination's constructor for its own temporary mount
\* point, so the unwind never unmounts or removes the source's.
C33_SourceUntouched ==
  /\ [](/\ (cur = "src" /\ pc # "main" /\ drainStarts = 0) =>
             /\ jobs = <<SyncJob>>
             /\ held = {}
             /\ executed = <<>>
        /\ cur = "src" =>
             /\ Ops \cap MountSteps = {}
             /\ Pushes(UmountJob) = 0 /\ Pushes(RmdirJob) = 0
             /\ ExecutedJobs \subseteq {SyncJob}
        /\ cur = "dest" =>
             /\ ~luksDev["src"]
             /\ fs["src"].mountpoint = "/"
             /\ fs["src"].filesystem_device_path = fs["src"].partition_device_path
        /\ (Pushes(UmountJob) > 0 \/ Pushes(RmdirJob) > 0) =>
             /\ cur = "dest"
             /\ fs["dest"].mountpoint # fs["src"].mountpoint
             /\ Pushes(UmountJob) <= 1 /\ Pushes(RmdirJob) = 1)
  /\ [][(trace' # trace /\ trace'[Len(trace')].op \in MountSteps) => cur = "dest"]_vars

C33_Witness ==
  /\ pc = "exited"
  /\ exitStatus = 0
  /\ cur = "dest"
  /\ fs["src"].mountpoint = "/"
  /\ Succeeded("mount") = 1
  /\ Succeeded("mkdtemp") = 1
  /\ Pushes(UmountJob) = 1
====
